---- MODULE Spec2Model ----
(***************************************************************************)
(* A model of the full-text extraction engine of papers_crawler            *)
(* (src/src/papers_crawler/crawl_text_async.py, extract_fulltext_as_json   *)
(* and the closures it defines).                                           *)
(*                                                                         *)
(* Text is modelled by TLA+ strings, character by character (Len, SubSeq   *)
(* and \o on strings).  The module text is ASCII, so the few non-ASCII     *)
(* characters the code tests for are written with ASCII stand-ins, each a  *)
(* named definition (Star, EnDash, MinusSign, Bullet, MidDot).             *)
(*                                                                         *)
(* A document tree is a nested record: a text node has name "#text" and    *)
(* carries text, a tag has a name, attributes and a sequence of children.  *)
(* A node is identified by its path (the child indices from the root).     *)
(***************************************************************************)
EXTENDS Integers, Sequences, FiniteSets, TLC

\* ------------------------------------------------------------------------
\* Characters and strings
\* ------------------------------------------------------------------------

\* U+2605 BLACK STAR, removed from section keys (line 501)
Star == "*"
\* U+2013 EN DASH, one of the separator tokens (lines 385, 404)
EnDash == "~"
\* U+2212 MINUS SIGN (line 463)
MinusSign == "^"
\* U+2022 BULLET and U+00B7 MIDDLE DOT (lines 438, 460)
Bullet == "@"
MidDot == "%"

Ch(s, i) == SubSeq(s, i, i)

\* what the regular expression class \s and str.strip() take for white space
IsSpace(c) == c \in {" ", "\n", "\t"}

UpperLetters == "ABCDEFGHIJKLMNOPQRSTUVWXYZ"
LowerLetters == "abcdefghijklmnopqrstuvwxyz"

\* [A-Za-z] and, on the characters of the model, str.isalpha()
IsAlpha(c) ==
    \E i \in 1..26 : Ch(UpperLetters, i) = c \/ Ch(LowerLetters, i) = c
IsDigit(c) == c \in {"0", "1", "2", "3", "4", "5", "6", "7", "8", "9"}

LowerChar(c) ==
    IF \E i \in 1..26 : Ch(UpperLetters, i) = c
    THEN Ch(LowerLetters, CHOOSE i \in 1..26 : Ch(UpperLetters, i) = c)
    ELSE c

RECURSIVE ConcatRange(_, _, _)
\* seq[lo] \o ... \o seq[hi], split in halves
ConcatRange(seq, lo, hi) ==
    IF lo > hi THEN ""
    ELSE IF lo = hi THEN seq[lo]
    ELSE ConcatRange(seq, lo, (lo + hi) \div 2)
         \o ConcatRange(seq, (lo + hi) \div 2 + 1, hi)

\* "".join(seq)
Concat(seq) == ConcatRange(seq, 1, Len(seq))

\* sep.join(seq)
Join(seq, sep) ==
    Concat([i \in 1..Len(seq) |-> IF i = 1 THEN seq[i] ELSE sep \o seq[i]])

\* str.lower()
Lower(s) == Concat([i \in 1..Len(s) |-> LowerChar(Ch(s, i))])

\* str.replace(a, b) for a one-character a
Replace(s, a, b) ==
    Concat([i \in 1..Len(s) |-> IF Ch(s, i) = a THEN b ELSE Ch(s, i)])

\* str.strip()
Strip(s) ==
    LET RECURSIVE Left(_)
        Left(i) == IF i > Len(s) \/ ~IsSpace(Ch(s, i)) THEN i ELSE Left(i + 1)
        RECURSIVE Right(_)
        Right(j) == IF j < 1 \/ ~IsSpace(Ch(s, j)) THEN j ELSE Right(j - 1)
    IN SubSeq(s, Left(1), Right(Len(s)))

\* str.rstrip("\n")
RStripNewlines(s) ==
    LET RECURSIVE Right(_)
        Right(j) == IF j < 1 \/ Ch(s, j) # "\n" THEN j ELSE Right(j - 1)
    IN SubSeq(s, 1, Right(Len(s)))

\* sub in s
Contains(sub, s) ==
    \E i \in 1..(Len(s) - Len(sub) + 1) : SubSeq(s, i, i + Len(sub) - 1) = sub

StartsWith(s, pre) == Len(pre) <= Len(s) /\ SubSeq(s, 1, Len(pre)) = pre

EndsWith(s, suf) ==
    Len(suf) <= Len(s) /\ SubSeq(s, Len(s) - Len(suf) + 1, Len(s)) = suf

RECURSIVE Spaces(_)
\* n spaces
Spaces(n) == IF n <= 0 THEN "" ELSE " " \o Spaces(n - 1)

\* three hash signs whatever the level
HashesOfLevel3(n) == "###"

RECURSIVE Hashes(_)
\* n hash signs
Hashes(n) == IF n <= 0 THEN "" ELSE "#" \o Hashes(n - 1)

InSeq(x, seq) == \E i \in 1..Len(seq) : seq[i] = x

\* every run of the characters of oneOf replaced by one space
CollapseFrom(s, oneOf) ==
    Concat([i \in 1..Len(s) |->
               IF Ch(s, i) \notin oneOf THEN Ch(s, i)
               ELSE IF i > 1 /\ Ch(s, i - 1) \in oneOf THEN ""
               ELSE " "])

\* re.sub(r"\s+", " ", s)
CollapseWhitespace(s) == CollapseFrom(s, {" ", "\n", "\t"})

\* re.sub(r" +", " ", s)
CollapseSpaces(s) == CollapseFrom(s, {" "})

IsPunct(c) == c \in {".", ",", ";", ":", "!", "?"}

RECURSIVE SpaceRunEnd(_, _)
\* the first index at or after i that holds no white space
SpaceRunEnd(s, i) ==
    IF i > Len(s) \/ ~IsSpace(Ch(s, i)) THEN i ELSE SpaceRunEnd(s, i + 1)

RECURSIVE SpaceRunStart(_, _)
\* the first index of the run of white space that ends at i
SpaceRunStart(s, i) ==
    IF i <= 1 \/ ~IsSpace(Ch(s, i - 1)) THEN i ELSE SpaceRunStart(s, i - 1)

\* re.sub(r"\s+([.,;:!?])", r"\1", s)
NoSpaceBeforePunct(s) ==
    LET Before(j) == j <= Len(s) /\ IsPunct(Ch(s, j))
    IN Concat([i \in 1..Len(s) |->
                  IF IsSpace(Ch(s, i)) /\ Before(SpaceRunEnd(s, i))
                  THEN "" ELSE Ch(s, i)])

\* re.sub(r"([.,;:!?])([A-Za-z])", r"\1 \2", s)
SpaceAfterPunct(s) ==
    Concat([i \in 1..Len(s) |->
               IF IsPunct(Ch(s, i)) /\ i < Len(s) /\ IsAlpha(Ch(s, i + 1))
               THEN Ch(s, i) \o " " ELSE Ch(s, i)])

\* re.sub(r"\s*\|\s*", " ", s)
PipeToSpace(s) ==
    LET IsPipe(j) == j >= 1 /\ j <= Len(s) /\ Ch(s, j) = "|"
    IN Concat([i \in 1..Len(s) |->
                  IF Ch(s, i) = "|" THEN " "
                  ELSE IF /\ IsSpace(Ch(s, i))
                          /\ \/ IsPipe(SpaceRunEnd(s, i))
                             \/ IsPipe(SpaceRunStart(s, i) - 1)
                  THEN "" ELSE Ch(s, i)])

\* str.replace(sub, rep): the occurrences from the left that do not overlap
ReplaceAll(s, sub, rep) ==
    LET At(k) == SubSeq(s, k, k + Len(sub) - 1) = sub
        RECURSIVE From(_)
        From(i) ==
            IF \E k \in i..(Len(s) - Len(sub) + 1) : At(k)
            THEN LET k == CHOOSE k \in i..(Len(s) - Len(sub) + 1) :
                              At(k) /\ \A j \in i..(k - 1) : ~At(j)
                 IN SubSeq(s, i, k - 1) \o rep \o From(k + Len(sub))
            ELSE SubSeq(s, i, Len(s))
    IN IF sub = "" THEN s ELSE From(1)

Last(seq) == seq[Len(seq)]

\* ------------------------------------------------------------------------
\* The document tree (BeautifulSoup Tag and NavigableString)
\* ------------------------------------------------------------------------

\* the attributes the engine reads; an absent attribute is "" (no class: <<>>)
NoAttrs ==
    [id |-> "", class |-> <<>>, role |-> "", aria_hidden |-> "",
     data_component |-> "", data_core_component |-> FALSE,
     data_core_wrapper |-> "", name |-> "", property |-> "", content |-> "",
     href |-> "", data_rid |-> "", rel |-> "", itemprop |-> "",
     data_test |-> ""]

\* a NavigableString
Txt(t) == [name |-> "#text", text |-> t, attrs |-> NoAttrs, children |-> <<>>]

\* a Tag
El(name, attrs, children) ==
    [name |-> name, text |-> "", attrs |-> attrs, children |-> children]

IsTag(node) == node.name # "#text"

\* Tag.descendants: every node below node, in document order
Descendants(node) ==
    LET RECURSIVE Below(_, _)
        Below(n, i) ==
            IF i > Len(n.children) THEN <<>>
            ELSE <<n.children[i]>> \o Below(n.children[i], 1) \o Below(n, i + 1)
    IN Below(node, 1)

HasName(node, names) == IsTag(node) /\ node.name \in names

\* Tag.find_all(names): the descendant tags with one of the names
find_all(node, names) ==
    SelectSeq(Descendants(node), LAMBDA n : HasName(n, names))

\* Tag.find_all(names, recursive=False)
find_children(node, names) ==
    SelectSeq(node.children, LAMBDA n : HasName(n, names))

\* whether a child of the node has one of the names
has_child(node, names) ==
    \E i \in 1..Len(node.children) : HasName(node.children[i], names)

\* whether Tag.find(names) finds a tag
has_descendant(node, names) == find_all(node, names) # <<>>

\* Tag.stripped_strings
stripped_strings(node) ==
    LET texts == SelectSeq(Descendants(node),
                           LAMBDA n : ~IsTag(n) /\ Strip(n.text) # "")
    IN [i \in 1..Len(texts) |-> Strip(texts[i].text)]

\* Tag.get_text(sep, strip=True)
get_text_strip(node, sep) == Join(stripped_strings(node), sep)

\* ------------------------------------------------------------------------
\* Text Normalizer
\* ------------------------------------------------------------------------

clean_text(value) == IF value = "" THEN "" ELSE Strip(CollapseWhitespace(value))

unwanted_phrases ==
    << "search for articles by this author", "crossref", "scopus",
       "google scholar", "show more", "show less", "supplementary material",
       "supplementary information", "metrics", "copyright", "licence",
       "license" >>

\* U+2026 HORIZONTAL ELLIPSIS and U+2219 BULLET OPERATOR (line 442)
Ellipsis == "$"
BulletOperator == "="

should_skip_text(text) ==
    IF text = "" THEN TRUE
    ELSE LET stripped == Strip(text)
             lower == Lower(stripped)
         IN IF StartsWith(lower, "/* lines") /\ EndsWith(lower, " omitted */")
            THEN TRUE
            ELSE IF \E i \in 1..Len(unwanted_phrases) :
                        Contains(unwanted_phrases[i], lower)
            THEN TRUE
            ELSE IF stripped \in {Bullet, MidDot} THEN FALSE
            ELSE IF Len(lower) <= 2
                    /\ ~\E i \in 1..Len(lower) : IsAlpha(Ch(lower, i))
            THEN TRUE
            ELSE IF lower \in {Ellipsis, "...", BulletOperator} THEN TRUE
            ELSE FALSE

\* ------------------------------------------------------------------------
\* Inline Reference-Aware Extractor
\* ------------------------------------------------------------------------

\* separator tokens without the word "and"
separator_tokens_no_word == {",", ";", "&", EnDash, "-"}

\* the separator tokens between citations (lines 385 and 404)
separator_tokens == {",", ";", "and", "&", EnDash, "-"}

\* a flush that forgets the pending numbers
flush_refs_dropped(parts, pending_refs) == parts

\* a flush that writes one annotation per pending number
flush_refs_ungrouped(parts, pending_refs) ==
    parts \o [i \in 1..Len(pending_refs) |-> " (Ref: " \o pending_refs[i] \o ")"]

\* the closure flush_refs: the pending numbers as one annotation
flush_refs(parts, pending_refs) ==
    IF pending_refs # <<>>
    THEN Append(parts, " (Ref: " \o Join(pending_refs, ", ") \o ")")
    ELSE parts

RECURSIVE extract_text_with_refs(_)
RECURSIVE ExtractChildren(_, _, _, _)

\* the loop over element.children of extract_text_with_refs, from child i on,
\* with the fragments and the pending citation numbers so far
ExtractChildren(element, i, parts, pending_refs) ==
    IF i > Len(element.children) THEN flush_refs(parts, pending_refs)
    ELSE
    LET child == element.children[i] IN
    IF ~IsTag(child)
    THEN IF Strip(child.text) # ""
         THEN ExtractChildren(element, i + 1,
                  Append(flush_refs(parts, pending_refs), child.text), <<>>)
         ELSE ExtractChildren(element, i + 1, parts, pending_refs)
    ELSE IF child.name = "div" /\ InSeq("dropBlock__holder", child.attrs.class)
    THEN ExtractChildren(element, i + 1, parts, pending_refs)
    ELSE IF child.name = "a" /\ child.attrs.role = "doc-biblioref"
    THEN LET sups == find_all(child, {"sup"}) IN
         ExtractChildren(element, i + 1, parts,
             IF sups # <<>>
             THEN Append(pending_refs, get_text_strip(sups[1], ""))
             ELSE pending_refs)
    ELSE IF child.name \in {"sup", "sub"}
    THEN LET sup_text == get_text_strip(child, "")
             parent_is_ref == element.name = "a"
                              /\ element.attrs.role = "doc-biblioref"
         IN IF sup_text \in separator_tokens
            THEN ExtractChildren(element, i + 1, parts, pending_refs)
            ELSE IF ~parent_is_ref
            THEN ExtractChildren(element, i + 1,
                     IF sup_text # ""
                     THEN Append(flush_refs(parts, pending_refs), sup_text)
                     ELSE flush_refs(parts, pending_refs),
                     <<>>)
            ELSE ExtractChildren(element, i + 1, parts, pending_refs)
    ELSE IF child.name \in {"span", "strong", "em", "i", "b"}
    THEN LET child_parts == extract_text_with_refs(child)
             child_text == Strip(Concat(child_parts))
         IN IF child_text \in separator_tokens
            THEN ExtractChildren(element, i + 1, parts, pending_refs)
            ELSE IF child_text # ""
            THEN ExtractChildren(element, i + 1,
                     flush_refs(parts, pending_refs) \o child_parts, <<>>)
            ELSE ExtractChildren(element, i + 1, parts, pending_refs)
    ELSE ExtractChildren(element, i + 1,
             flush_refs(parts, pending_refs) \o extract_text_with_refs(child),
             <<>>)

extract_text_with_refs(element) == ExtractChildren(element, 1, <<>>, <<>>)

\* ------------------------------------------------------------------------
\* The closure variables of one call, threaded as a record ctx:
\*   json_data               the section map, a dict in insertion order,
\*                           as a sequence of [k, v] entries
\*   current_section         the current section name
\*   current_section_parts   the current section buffer
\*   text_parts              the flat text
\*   recent_lines            the deque(maxlen=60) of line fingerprints
\*   pending_bullet_prefix   None is ""
\*   footnote_map, footnote_in_refs   dicts, as sequences of [k, v] entries
\*   footnote_elements       the set of excluded tags (a set of Tag compares
\*                           tags by name, attributes and contents)
\*   events                  history: what the closures were called with
\* ------------------------------------------------------------------------

recent_lines_maxlen == 60
indent_step == 2

\* a cap one step beyond the maximum
max_indent_far == 7 * indent_step
max_indent == 12

DictHas(d, k) == \E i \in 1..Len(d) : d[i].k = k

DictGet(d, k, default) ==
    IF DictHas(d, k) THEN d[CHOOSE i \in 1..Len(d) : d[i].k = k].v ELSE default

\* d[k] = v
DictSet(d, k, v) ==
    IF DictHas(d, k)
    THEN [i \in 1..Len(d) |-> IF d[i].k = k THEN [k |-> k, v |-> v] ELSE d[i]]
    ELSE Append(d, [k |-> k, v |-> v])

DictKeys(d) == [i \in 1..Len(d) |-> d[i].k]

\* deque(maxlen=60).append(x)
deque_append(dq, x) ==
    IF Len(dq) >= recent_lines_maxlen THEN Append(Tail(dq), x) ELSE Append(dq, x)

\* one entry of the history
Event(op, text, n, flag, out) ==
    [op |-> op, text |-> text, n |-> n, flag |-> flag, out |-> out]

Log(ctx, e) == [ctx EXCEPT !.events = Append(@, e)]

ensure_paragraph_break(ctx) ==
    IF ctx.text_parts = <<>> THEN ctx
    ELSE LET last == Last(ctx.text_parts) IN
         IF last = "\n" \/ EndsWith(last, "\n\n") THEN ctx
         ELSE [ctx EXCEPT !.text_parts = Append(@, "\n")]

\* append_line looking up the line with its newline, a key recent_lines
\* never holds
append_line_newline_key(text, indent, allow_repeat, ctx0) ==
    LET cleaned0 == clean_text(text)
        stripped == Strip(cleaned0)
        ctx == Log(ctx0, Event("append_line", text, indent, allow_repeat, ""))
    IN
    IF cleaned0 = "" THEN ctx
    ELSE IF stripped \in {Bullet, MidDot}
    THEN [ctx EXCEPT !.pending_bullet_prefix = Spaces(indent) \o Bullet \o " "]
    ELSE IF stripped \in {"+", "-", MinusSign} /\ ctx.text_parts # <<>>
    THEN LET updated == RStripNewlines(Last(ctx.text_parts))
                        \o " " \o stripped \o "\n"
         IN [ctx EXCEPT
               !.text_parts = [@ EXCEPT ![Len(@)] = updated],
               !.recent_lines = deque_append(@, clean_text(Strip(updated))),
               !.events = Append(@, Event("merged", updated, indent, allow_repeat,
                                          ctx.current_section))]
    ELSE IF should_skip_text(cleaned0) THEN ctx
    ELSE
    LET cleaned1 == IF indent # 0 /\ ctx.pending_bullet_prefix = ""
                    THEN Spaces(indent) \o cleaned0 ELSE cleaned0
        cleaned == IF ctx.pending_bullet_prefix # ""
                   THEN ctx.pending_bullet_prefix \o cleaned1 ELSE cleaned1
        dedup_key == clean_text(cleaned)
        ctx1 == [ctx EXCEPT !.pending_bullet_prefix = ""]
    IN
    IF ~allow_repeat /\ InSeq(cleaned \o "\n", ctx.recent_lines) THEN ctx1
    ELSE [ctx1 EXCEPT
            !.recent_lines = deque_append(@, dedup_key),
            !.current_section_parts = Append(@, cleaned \o "\n"),
            !.text_parts = Append(@, cleaned \o "\n"),
            !.events = Append(@, Event("line", cleaned \o "\n", indent,
                                       allow_repeat, ctx.current_section))]

\* lines 454-482
append_line(text, indent, allow_repeat, ctx0) ==
    LET cleaned0 == clean_text(text)
        stripped == Strip(cleaned0)
        ctx == Log(ctx0, Event("append_line", text, indent, allow_repeat, ""))
    IN
    IF cleaned0 = "" THEN ctx
    ELSE IF stripped \in {Bullet, MidDot}
    THEN [ctx EXCEPT !.pending_bullet_prefix = Spaces(indent) \o Bullet \o " "]
    ELSE IF stripped \in {"+", "-", MinusSign} /\ ctx.text_parts # <<>>
    THEN LET updated == RStripNewlines(Last(ctx.text_parts))
                        \o " " \o stripped \o "\n"
         IN [ctx EXCEPT
               !.text_parts = [@ EXCEPT ![Len(@)] = updated],
               !.recent_lines = deque_append(@, clean_text(Strip(updated))),
               !.events = Append(@, Event("merged", updated, indent, allow_repeat,
                                          ctx.current_section))]
    ELSE IF should_skip_text(cleaned0) THEN ctx
    ELSE
    LET cleaned1 == IF indent # 0 /\ ctx.pending_bullet_prefix = ""
                    THEN Spaces(indent) \o cleaned0 ELSE cleaned0
        cleaned == IF ctx.pending_bullet_prefix # ""
                   THEN ctx.pending_bullet_prefix \o cleaned1 ELSE cleaned1
        dedup_key == clean_text(cleaned)
        ctx1 == [ctx EXCEPT !.pending_bullet_prefix = ""]
    IN
    IF ~allow_repeat /\ InSeq(dedup_key, ctx.recent_lines) THEN ctx1
    ELSE [ctx1 EXCEPT
            !.recent_lines = deque_append(@, dedup_key),
            !.current_section_parts = Append(@, cleaned \o "\n"),
            !.text_parts = Append(@, cleaned \o "\n"),
            !.events = Append(@, Event("line", cleaned \o "\n", indent,
                                       allow_repeat, ctx.current_section))]

\* the key without the removal of the star
section_key_keeps_star(heading_text) ==
    Replace(Lower(heading_text), " ", "_")

\* heading_text.lower().replace(" ", "_").replace(star, "")   (line 501)
section_key(heading_text) ==
    ReplaceAll(Replace(Lower(heading_text), " ", "_"), Star, "")

\* save_section with setdefault in the place of the assignment: a key the
\* map already holds keeps its first content
save_section_first_wins(ctx) ==
    IF ctx.current_section_parts # <<>>
       /\ Strip(Concat(ctx.current_section_parts)) # ""
       /\ ~DictHas(ctx.json_data, ctx.current_section)
    THEN [ctx EXCEPT
            !.json_data = DictSet(@, ctx.current_section,
                                  Strip(Concat(ctx.current_section_parts))),
            !.events = Append(@, Event("save",
                                       Strip(Concat(ctx.current_section_parts)),
                                       0, FALSE, ctx.current_section))]
    ELSE ctx

\* a save of the buffer as it is, not trimmed
save_section_untrimmed(ctx) ==
    IF ctx.current_section_parts # <<>>
    THEN LET section_content == Concat(ctx.current_section_parts) IN
         IF section_content # ""
         THEN [ctx EXCEPT
                 !.json_data = DictSet(@, ctx.current_section, section_content),
                 !.events = Append(@, Event("save", section_content, 0, FALSE,
                                            ctx.current_section))]
         ELSE ctx
    ELSE ctx

\* lines 495-498 and 941-944: the buffer goes into the section map
save_section(ctx) ==
    IF ctx.current_section_parts # <<>>
    THEN LET section_content == Strip(Concat(ctx.current_section_parts)) IN
         IF section_content # ""
         THEN [ctx EXCEPT
                 !.json_data = DictSet(@, ctx.current_section, section_content),
                 !.events = Append(@, Event("save", section_content, 0, FALSE,
                                            ctx.current_section))]
         ELSE ctx
    ELSE ctx

Max(a, b) == IF a > b THEN a ELSE b
Min(a, b) == IF a < b THEN a ELSE b

append_heading(level0, text, ctx0) ==
    LET heading_text == clean_text(text)
        ctx == Log(ctx0, Event("append_heading", text, level0, FALSE, ""))
    IN
    IF should_skip_text(heading_text) THEN ctx
    ELSE
    LET level == Max(1, Min(level0, 6))
        ctx1 == ensure_paragraph_break(ctx)
        ctx2 == IF level <= 2
                THEN [save_section(ctx1) EXCEPT
                        !.current_section = section_key(heading_text),
                        !.current_section_parts = <<>>]
                ELSE [ctx1 EXCEPT !.current_section_parts =
                        Append(@, Hashes(level) \o " " \o heading_text \o "\n\n")]
    IN [ctx2 EXCEPT
          !.text_parts = @ \o <<Hashes(level) \o " " \o heading_text \o "\n", "\n">>,
          !.events = Append(@, Event("heading", heading_text, level, FALSE,
                                     ctx2.current_section))]

\* ------------------------------------------------------------------------
\* Identifiers of citations and footnotes
\* ------------------------------------------------------------------------

\* the first index at or after i where s holds the character c, or 0
IndexOfFrom(s, c, i) ==
    IF \E k \in i..Len(s) : Ch(s, k) = c
    THEN CHOOSE k \in i..Len(s) :
             Ch(s, k) = c /\ \A j \in i..(k - 1) : Ch(s, j) # c
    ELSE 0

\* s.split(c, 1)[1] for an s that holds c
AfterFirst(s, c) == SubSeq(s, IndexOfFrom(s, c, 1) + 1, Len(s))

\* [part for part in re.split(r"[\s,;]+", s) if part]
SplitIdentifiers(s) ==
    LET delims == {" ", "\n", "\t", ",", ";"}
        RECURSIVE From(_, _)
        From(i, cur) ==
            IF i > Len(s) THEN (IF cur = "" THEN <<>> ELSE <<cur>>)
            ELSE IF Ch(s, i) \in delims
                 THEN (IF cur = "" THEN <<>> ELSE <<cur>>) \o From(i + 1, "")
                 ELSE From(i + 1, cur \o Ch(s, i))
    IN From(1, "")

normalize_identifier(value) ==
    LET RECURSIVE WithoutSpaces(_, _)
        WithoutSpaces(s, i) ==
            IF i > Len(s) THEN ""
            ELSE (IF IsSpace(Ch(s, i)) THEN "" ELSE Ch(s, i))
                 \o WithoutSpaces(s, i + 1)
        Unhashed(normalized) ==
            IF StartsWith(normalized, "#")
            THEN SubSeq(normalized, 2, Len(normalized))
            ELSE normalized
    IN IF value = "" THEN ""
       ELSE WithoutSpaces(Unhashed(Lower(Strip(value))), 1)

\* split_identifier_values for an attribute value that is a string
split_identifier_values(raw_value) ==
    IF raw_value = "" THEN <<>>
    ELSE LET value0 == Strip(raw_value) IN
         IF value0 = "" THEN <<>>
         ELSE LET value1 == IF StartsWith(value0, "#")
                            THEN SubSeq(value0, 2, Len(value0)) ELSE value0
                  value == IF StartsWith(value1, "http") /\ Contains("#", value1)
                           THEN AfterFirst(value1, "#") ELSE value1
              IN SplitIdentifiers(value)

\* extract_candidate_ids over the attributes a model document carries:
\* id, name, href and data-rid, in the order of the attributes tuple
extract_candidate_ids(element) ==
    split_identifier_values(element.attrs.id)
    \o split_identifier_values(element.attrs.name)
    \o (IF element.attrs.href # "" /\ Contains("#", element.attrs.href)
        THEN split_identifier_values(AfterFirst(element.attrs.href, "#"))
        ELSE <<>>)
    \o split_identifier_values(element.attrs.data_rid)

\* lines 319-340
collect_inline_footnotes(container, ctx) ==
    LET RECURSIVE FlattenIds(_, _)
        \* the candidate ids of the anchors below a sup, in order
        FlattenIds(anchors, i) ==
            IF i > Len(anchors) THEN <<>>
            ELSE extract_candidate_ids(anchors[i]) \o FlattenIds(anchors, i + 1)
        Noted(acc, normalized, note_text) ==
            IF normalized = "" \/ normalized \in acc.seen_ids
               \/ DictGet(ctx.footnote_in_refs, normalized, FALSE)
               \/ note_text = ""
            THEN acc
            ELSE [seen_ids |-> acc.seen_ids \cup {normalized},
                  collected |-> Append(acc.collected, note_text)]
        Resolved(acc, normalized) ==
            Noted(acc, normalized, DictGet(ctx.footnote_map, normalized, ""))
        RECURSIVE CollectIds(_, _, _)
        \* the inner loop over candidate_ids
        CollectIds(ids, i, acc) ==
            IF i > Len(ids) THEN acc
            ELSE CollectIds(ids, i + 1, Resolved(acc, normalize_identifier(ids[i])))
        Candidates(sup, own) ==
            IF own = <<>> THEN FlattenIds(find_all(sup, {"a"}), 1) ELSE own
        RECURSIVE CollectSups(_, _, _)
        \* the outer loop over container.find_all("sup")
        CollectSups(sups, i, acc) ==
            IF i > Len(sups) THEN acc
            ELSE CollectSups(sups, i + 1,
                     CollectIds(Candidates(sups[i], extract_candidate_ids(sups[i])),
                                1, acc))
    IN IF ctx.footnote_map = <<>> THEN <<>>
       ELSE CollectSups(find_all(container, {"sup"}), 1,
                        [seen_ids |-> {}, collected |-> <<>>]).collected

\* ------------------------------------------------------------------------
\* Table and list renderers
\* ------------------------------------------------------------------------

\* lines 550-554: the text of one cell
cell_text(cell) ==
    PipeToSpace(CollapseWhitespace(Strip(Concat(extract_text_with_refs(cell)))))

\* lines 547-555: the cells of one row
row_cells(tr) ==
    LET cells == find_all(tr, {"th", "td"}) IN
    [i \in 1..Len(cells) |-> cell_text(cells[i])]

\* lines 545-557: the rows with a non-empty cell
table_rows(table_tag) ==
    LET trs == find_all(table_tag, {"tr"})
        all == [i \in 1..Len(trs) |-> row_cells(trs[i])]
    IN SelectSeq(all, LAMBDA cells : \E i \in 1..Len(cells) : cells[i] # "")

\* lines of the rows that leave the empty cells out
row_lines_without_gaps(rows) ==
    LET lines == [i \in 1..Len(rows) |->
                     Join(SelectSeq(rows[i], LAMBDA cell : cell # ""), " | ")]
    IN [i \in 1..Len(lines) |-> lines[i] \o "\n"]

\* lines 569-574: the lines of the rows
row_lines(rows) ==
    LET lines == [i \in 1..Len(rows) |-> Join(rows[i], " | ")]
        kept == SelectSeq(lines, LAMBDA line : Strip(line) # "")
    IN [i \in 1..Len(kept) |-> kept[i] \o "\n"]

append_table(table_tag, indent, ctx) ==
    LET rows == table_rows(table_tag)
        out == <<"\n", "[Table]\n">> \o row_lines(rows) \o <<"\n">>
    IN IF rows = <<>> THEN ctx
       ELSE [ctx EXCEPT
               !.text_parts = @ \o out,
               !.current_section_parts = @ \o out,
               !.events = Append(@, Event("table", Concat(out), Len(rows), FALSE,
                                          ctx.current_section))]

RECURSIVE RemoveNestedText(_, _, _)
\* lines 525-528: the text of the nested lists taken out of the item text
RemoveNestedText(full_text, nested_lists, j) ==
    IF j > Len(nested_lists) THEN full_text
    ELSE RemoveNestedText(
             ReplaceAll(full_text,
                        Strip(Concat(extract_text_with_refs(nested_lists[j]))), ""),
             nested_lists, j + 1)

RECURSIVE append_list(_, _, _)
RECURSIVE AppendListItems(_, _, _, _)
RECURSIVE AppendNestedLists(_, _, _, _)

\* lines 538-539
AppendNestedLists(nested_lists, j, indent, ctx) ==
    IF j > Len(nested_lists) THEN ctx
    ELSE AppendNestedLists(nested_lists, j + 1, indent,
             append_list(nested_lists[j], Min(indent + indent_step, max_indent), ctx))

\* the digits of a positive number, for the bullet of an ordered list
RECURSIVE Digits(_)
Digits(n) ==
    IF n < 10 THEN Ch("0123456789", n + 1)
    ELSE Digits(n \div 10) \o Ch("0123456789", (n % 10) + 1)

\* lines 515-539: the loop over the items, from item idx on
AppendListItems(list_tag, idx, indent, ctx) ==
    LET items == find_children(list_tag, {"li"}) IN
    IF idx > Len(items) THEN ctx
    ELSE
    LET item == items[idx]
        bullet == IF list_tag.name = "ol" THEN Digits(idx) \o ". " ELSE "- "
        full_text0 == CollapseSpaces(Strip(Concat(extract_text_with_refs(item))))
        nested_lists == find_children(item, {"ul", "ol"})
        full_text == clean_text(RemoveNestedText(full_text0, nested_lists, 1))
        ctx1 == IF full_text # ""
                THEN append_line(bullet \o full_text, indent, TRUE, ctx)
                ELSE append_line(Strip(bullet), indent, TRUE, ctx)
    IN AppendListItems(list_tag, idx + 1, indent,
                       AppendNestedLists(nested_lists, 1, indent, ctx1))

append_list(list_tag, indent, ctx) ==
    IF find_children(list_tag, {"li"}) = <<>> THEN ctx
    ELSE ensure_paragraph_break(AppendListItems(list_tag, 1, indent, ctx))

\* ------------------------------------------------------------------------
\* Recursive Content Walker
\* ------------------------------------------------------------------------

heading_tags == {"h1", "h2", "h3", "h4", "h5", "h6"}
skip_names == {"script", "style", "svg", "noscript", "form", "hr", "iframe"}
container_keywords ==
    << "core-container", "section", "subsection", "article__section",
       "article-section", "body-section", "content-block" >>

\* int(name[1]) for a heading tag
heading_level(name) ==
    CHOOSE n \in 1..6 : Ch("123456", n) = Ch(name, 2)

\* [cls.lower() for cls in node.get("class", [])]
lower_classes(node) ==
    [i \in 1..Len(node.attrs.class) |-> Lower(node.attrs.class[i])]

\* any(word in cls for cls in classes)
AnyClassHas(classes, word) ==
    \E i \in 1..Len(classes) : Contains(word, classes[i])

\* the test without the class names
is_figure_like_by_tag(node) ==
    \/ node.name = "figure"
    \/ Lower(node.attrs.data_component) = "figure"

\* lines 604-625: the tag is a figure, or marked as one
is_figure_like(node) ==
    \/ node.name = "figure"
    \/ Lower(node.attrs.data_component) = "figure"
    \/ AnyClassHas(lower_classes(node), "figure-wrap")
    \/ AnyClassHas(lower_classes(node), "figure")

\* lines 696-698
is_container(node) ==
    \/ node.name = "section"
    \/ \E i \in 1..Len(container_keywords) :
           AnyClassHas(lower_classes(node), container_keywords[i])
    \/ node.attrs.data_core_component

\* the line of a paragraph without the annotation of its notes
paragraph_text_no_notes(node, ctx) ==
    SpaceAfterPunct(NoSpaceBeforePunct(
        Strip(CollapseSpaces(Concat(extract_text_with_refs(node))))))

\* lines 666-685: the line of a paragraph without a table
paragraph_text(node, ctx) ==
    LET text_parts == extract_text_with_refs(node)
        paragraph == SpaceAfterPunct(NoSpaceBeforePunct(
                         Strip(CollapseSpaces(Concat(text_parts)))))
        inline_notes == collect_inline_footnotes(node, ctx)
    IN IF inline_notes # <<>>
       THEN paragraph \o " (Footnote: " \o Join(inline_notes, "; ") \o ")"
       ELSE paragraph

RECURSIVE append_content(_, _, _)
RECURSIVE AppendChildren(_, _, _, _)

\* lines 703-704: the children of node from child i on
AppendChildren(node, i, next_indent, ctx) ==
    IF i > Len(node.children) THEN ctx
    ELSE AppendChildren(node, i + 1, next_indent,
             append_content(node.children[i], next_indent, ctx))

append_content(node, indent, ctx0) ==
    IF ~IsTag(node) THEN append_line(clean_text(node.text), indent, FALSE, ctx0)
    ELSE
    LET name == node.name
        classes == lower_classes(node)
        role_attr == Lower(node.attrs.role)
        ctx == Log(ctx0, Event("visit", name, indent, FALSE, ""))
    IN
    IF node \in ctx.footnote_elements THEN ctx
    ELSE IF name \in skip_names THEN ctx
    ELSE IF node.attrs.aria_hidden = "true" THEN ctx
    ELSE IF Lower(node.attrs.id) = "references" THEN ctx
    ELSE IF is_figure_like(node)
    THEN LET tables == find_all(node, {"table"}) IN
         IF tables # <<>> THEN append_table(tables[1], indent, ctx) ELSE ctx
    ELSE IF AnyClassHas(classes, "sidebar") THEN ctx
    ELSE IF name \in {"aside", "div", "section"} /\ AnyClassHas(classes, "footnote")
    THEN ctx
    ELSE IF name \in {"sup", "sub", "span", "a", "strong", "em", "i", "b"} THEN ctx
    ELSE IF name = "br" THEN ctx
    ELSE IF name \in heading_tags
    THEN LET heading_text ==
                 Strip(CollapseSpaces(Concat(extract_text_with_refs(node))))
         IN IF heading_text # ""
            THEN append_heading(Min(heading_level(name), 6), heading_text, ctx)
            ELSE ctx
    ELSE IF role_attr = "doc-footnote" THEN ctx
    ELSE IF (name \in {"p", "blockquote"} \/ role_attr = "paragraph")
            /\ ~has_descendant(node, {"table"})
    THEN LET paragraph == paragraph_text(node, ctx) IN
         IF paragraph # "" THEN append_line(paragraph, indent, TRUE, ctx) ELSE ctx
    ELSE IF name \in {"ul", "ol"} THEN append_list(node, indent, ctx)
    ELSE IF name = "table" THEN append_table(node, indent, ctx)
    ELSE
    LET next_indent == IF is_container(node)
                       THEN Min(indent + indent_step, max_indent) ELSE indent
        ctx1 == AppendChildren(node, 1, next_indent, ctx)
    IN IF is_container(node) THEN ensure_paragraph_break(ctx1) ELSE ctx1

\* ------------------------------------------------------------------------
\* Paths: a node of the tree is named by the child indices that lead to it
\* ------------------------------------------------------------------------

NodeAt(root, path) ==
    LET RECURSIVE At(_, _)
        At(node, i) == IF i > Len(path) THEN node
                       ELSE At(node.children[path[i]], i + 1)
    IN At(root, 1)

\* the paths of all nodes below root, in document order
AllPaths(root) ==
    LET RECURSIVE Below(_, _, _)
        Below(node, path, i) ==
            IF i > Len(node.children) THEN <<>>
            ELSE <<Append(path, i)>>
                 \o Below(node.children[i], Append(path, i), 1)
                 \o Below(node, path, i + 1)
    IN Below(root, <<>>, 1)

\* the tags below root that satisfy Test, in document order (soup.select,
\* soup.find_all); the first of them is what soup.find gives
SelectPaths(root, Test(_)) ==
    SelectSeq(AllPaths(root),
              LAMBDA path : IsTag(NodeAt(root, path)) /\ Test(NodeAt(root, path)))

\* no tag: what find gives when nothing matches
NoPath == <<0>>

FirstPath(paths) == IF paths = <<>> THEN NoPath ELSE paths[1]

\* Tag.find_parent(names): the nearest ancestor with one of the names
find_parent(root, path, names) ==
    LET RECURSIVE Up(_)
        Up(n) == IF n < 1 THEN NoPath
                 ELSE IF NodeAt(root, SubSeq(path, 1, n)).name \in names
                 THEN SubSeq(path, 1, n)
                 ELSE Up(n - 1)
    IN Up(Len(path) - 1)

\* ------------------------------------------------------------------------
\* Pruning (lines 67-77)
\* ------------------------------------------------------------------------

unwanted_tags == {"button", "nav", "script", "style", "iframe", "aside"}

ui_classes ==
    << "show-more", "show-less", "expand", "collapse", "toggle", "button",
       "nav", "menu", "footer", "sidebar", "advertisement", "social-share",
       "download-link", "metrics", "altmetric" >>

is_unwanted(node) ==
    /\ IsTag(node)
    /\ \/ node.name \in unwanted_tags
       \/ \E i \in 1..Len(ui_classes) :
              AnyClassHas(lower_classes(node), ui_classes[i])

RECURSIVE prune(_)
\* the tree without the tags decompose() removed
prune(node) ==
    LET kept == SelectSeq(node.children, LAMBDA c : ~is_unwanted(c)) IN
    [node EXCEPT !.children = [i \in 1..Len(kept) |-> prune(kept[i])]]

\* ------------------------------------------------------------------------
\* Footnote/Reference Indexer
\* ------------------------------------------------------------------------

reference_skip_phrases ==
    << "full text", "full text (pdf)", "pdf", "crossref", "scopus", "pubmed",
       "google scholar", "open table in a new tab", "view abstract",
       "supplementary information" >>

\* re.sub(r"^\d+(\.|:)?\s*", "", s)
StripLeadingOrdinal(s) ==
    LET RECURSIVE DigitsEnd(_)
        DigitsEnd(i) == IF i > Len(s) \/ ~IsDigit(Ch(s, i)) THEN i
                        ELSE DigitsEnd(i + 1)
        d == DigitsEnd(1)
        e == IF d <= Len(s) /\ Ch(s, d) \in {".", ":"} THEN d + 1 ELSE d
    IN IF d = 1 THEN s ELSE SubSeq(s, SpaceRunEnd(s, e), Len(s))

clean_reference_entry(tag) ==
    LET strings == stripped_strings(tag)
        cleaned == [i \in 1..Len(strings) |-> clean_text(strings[i])]
        fragments ==
            SelectSeq(cleaned,
                LAMBDA f : /\ f # ""
                           /\ ~\E i \in 1..Len(reference_skip_phrases) :
                                  Contains(reference_skip_phrases[i], Lower(f)))
    IN IF fragments = <<>> THEN ""
       ELSE ReplaceAll(
                StripLeadingOrdinal(Strip(CollapseWhitespace(Join(fragments, " ")))),
                " ,", ",")

\* soup.find("section", id="references")   (line 88)
references_section(root) ==
    FirstPath(SelectPaths(root,
        LAMBDA n : n.name = "section" /\ n.attrs.id = "references"))

\* the eight selectors of build_footnote_map, in order
SelectorMatches(k, n) ==
    CASE k = 1 -> n.name = "a" /\ StartsWith(n.attrs.id, "bib")
      [] k = 2 -> n.name = "a" /\ StartsWith(n.attrs.id, "ref")
      [] k = 3 -> n.name = "a" /\ StartsWith(n.attrs.name, "bib")
      [] k = 4 -> n.name = "a" /\ StartsWith(n.attrs.name, "ref")
      [] k = 5 -> StartsWith(n.attrs.id, "bib")
      [] k = 6 -> StartsWith(n.attrs.id, "ref")
      [] k = 7 -> n.name = "li" /\ InSeq("reference", n.attrs.class)
      [] k = 8 -> n.name = "li" /\ InSeq("bibliography__item", n.attrs.class)

\* the candidates in the order the two loops of lines 234-235 meet them
footnote_candidates(root) ==
    LET RECURSIVE From(_)
        From(k) == IF k > 8 THEN <<>>
                   ELSE SelectPaths(root, LAMBDA n : SelectorMatches(k, n))
                        \o From(k + 1)
    IN From(1)

\* lines 236-247: the identifiers of one candidate
candidate_identifiers(candidate) ==
    LET own == IF candidate.attrs.id # "" THEN candidate.attrs.id
               ELSE candidate.attrs.name
        with_id == SelectSeq(find_all(candidate, {"a"}), LAMBDA a : a.attrs.id # "")
        with_name == SelectSeq(find_all(candidate, {"a"}), LAMBDA a : a.attrs.name # "")
        anchored == IF with_id # <<>> THEN with_id[1].attrs.id
                    ELSE IF with_name # <<>> THEN with_name[1].attrs.name
                    ELSE ""
        fid == IF own # "" THEN own ELSE anchored
        ids_to_process == IF fid = "" THEN extract_candidate_ids(candidate)
                          ELSE <<fid>>
        normalized == [i \in 1..Len(ids_to_process) |->
                          normalize_identifier(ids_to_process[i])]
    IN SelectSeq(normalized, LAMBDA v : v # "")

\* mark_footnote_elements: the container and the tags below it
mark_footnote_elements(container) ==
    LET below == SelectSeq(Descendants(container), IsTag)
    IN {container} \cup { below[i] : i \in 1..Len(below) }

\* lines 236-268: one candidate taken into the index acc =
\* [footnote_map, footnote_in_refs, footnote_elements, seen_ids]
index_candidate(root, path, acc) ==
    LET Container(candidate, parent_candidate) ==
            IF candidate.name \in {"a", "span", "sup"} /\ parent_candidate # NoPath
            THEN parent_candidate ELSE path
        \* "references_section in container.parents" compares tags by value
        InRefs(refs, container) ==
            /\ refs # NoPath
            /\ \E n \in 0..(Len(container) - 1) :
                   NodeAt(root, SubSeq(container, 1, n)) = NodeAt(root, refs)
        RECURSIVE Store(_, _, _, _, _)
        Store(normalized_ids, text, in_refs, i, a) ==
            IF i > Len(normalized_ids) THEN a
            ELSE IF normalized_ids[i] \in a.seen_ids
            THEN Store(normalized_ids, text, in_refs, i + 1, a)
            ELSE Store(normalized_ids, text, in_refs, i + 1,
                     [a EXCEPT
                        !.footnote_map = Append(@, [k |-> normalized_ids[i], v |-> text]),
                        !.footnote_in_refs = Append(@, [k |-> normalized_ids[i], v |-> in_refs]),
                        !.seen_ids = @ \cup {normalized_ids[i]}])
        Mark(stored, in_refs, container) ==
            IF in_refs THEN stored
            ELSE [stored EXCEPT !.footnote_elements =
                                    @ \cup mark_footnote_elements(container)]
        Entry(normalized_ids, text, in_refs, container) ==
            IF normalized_ids = <<>> \/ text = "" THEN acc
            ELSE Mark(Store(normalized_ids, text, in_refs, 1, acc), in_refs, container)
        In(normalized_ids, container) ==
            Entry(normalized_ids, clean_reference_entry(NodeAt(root, container)),
                  InRefs(references_section(root), container), NodeAt(root, container))
    IN In(candidate_identifiers(NodeAt(root, path)),
          Container(NodeAt(root, path),
                    find_parent(root, path, {"li", "div", "section", "p"})))

\* the index built from the last candidate back to the first, so that the
\* last match of an id is the one stored
build_footnote_map_last_wins(root) ==
    LET candidates == footnote_candidates(root)
        RECURSIVE Loop(_, _)
        Loop(i, acc) == IF i < 1 THEN acc
                        ELSE Loop(i - 1, index_candidate(root, candidates[i], acc))
    IN Loop(Len(candidates),
            [footnote_map |-> <<>>, footnote_in_refs |-> <<>>,
             footnote_elements |-> {}, seen_ids |-> {}])

\* lines 222-268
build_footnote_map(root) ==
    LET candidates == footnote_candidates(root)
        RECURSIVE Loop(_, _)
        Loop(i, acc) == IF i > Len(candidates) THEN acc
                        ELSE Loop(i + 1, index_candidate(root, candidates[i], acc))
    IN Loop(1, [footnote_map |-> <<>>, footnote_in_refs |-> <<>>,
                footnote_elements |-> {}, seen_ids |-> {}])

\* the characters of a normalized identifier, in code point order
CodePoints == "!$%&()*+,-./0123456789:;<=>?@[]^_abcdefghijklmnopqrstuvwxyz{|}~"

\* a < b as Python compares two str
StrLess(a, b) ==
    LET Rank(c) == IndexOfFrom(CodePoints, c, 1)
        RECURSIVE Less(_)
        Less(i) == IF i > Len(b) THEN FALSE
                   ELSE IF i > Len(a) THEN TRUE
                   ELSE IF Ch(a, i) = Ch(b, i) THEN Less(i + 1)
                   ELSE Rank(Ch(a, i)) < Rank(Ch(b, i))
    IN Less(1)

\* int(re.search(r"(\d+)", identifier).group(1)), or -1 when nothing matches
LeadingNumber(identifier) ==
    LET RECURSIVE FirstDigit(_)
        FirstDigit(i) == IF i > Len(identifier) THEN 0
                         ELSE IF IsDigit(Ch(identifier, i)) THEN i
                         ELSE FirstDigit(i + 1)
        RECURSIVE Value(_, _)
        Value(i, acc) ==
            IF i > Len(identifier) \/ ~IsDigit(Ch(identifier, i)) THEN acc
            ELSE Value(i + 1, 10 * acc + IndexOfFrom("0123456789", Ch(identifier, i), 1) - 1)
    IN IF FirstDigit(1) = 0 THEN -1 ELSE Value(FirstDigit(1), 0)

\* reference_sort_key(a) < reference_sort_key(b): (number, id) tuples, an id
\* without a number having the key (10**6, id)
reference_sort_key_less(a, b) ==
    LET Number(identifier) == IF LeadingNumber(identifier) = -1 THEN 10^6
                              ELSE LeadingNumber(identifier)
    IN IF Number(a) = Number(b) THEN StrLess(a, b)
       ELSE Number(a) < Number(b)

\* sorted(seq, key=...): stable, by insertion
Sorted(seq, Less(_, _)) ==
    LET RECURSIVE Insert(_, _)
        Insert(x, sorted) ==
            IF sorted = <<>> THEN <<x>>
            ELSE IF Less(x, Head(sorted)) THEN <<x>> \o sorted
            ELSE <<Head(sorted)>> \o Insert(x, Tail(sorted))
        RECURSIVE Sort(_)
        Sort(n) == IF n = 0 THEN <<>> ELSE Insert(seq[n], Sort(n - 1))
    IN Sort(Len(seq))

\* the loops with a set of seen texts that tells the letter cases apart
distinct_entries_exact(texts) ==
    LET Kept(i) == texts[i] # "" /\ \A j \in 1..(i - 1) : texts[j] # texts[i]
        kept == SelectSeq([i \in 1..Len(texts) |-> i], Kept)
    IN [i \in 1..Len(kept) |-> texts[kept[i]]]

\* the loops of lines 286-292, 300-308 and 311-316: the texts that are not
\* empty, without the ones seen before in another letter case
distinct_entries(texts) ==
    LET RECURSIVE Loop(_, _, _)
        Loop(i, entries, seen_text) ==
            IF i > Len(texts) THEN entries
            ELSE IF texts[i] = "" \/ Lower(texts[i]) \in seen_text
            THEN Loop(i + 1, entries, seen_text)
            ELSE Loop(i + 1, Append(entries, texts[i]),
                      seen_text \cup {Lower(texts[i])})
    IN Loop(1, <<>>, {})

get_reference_entries(root, ctx) ==
    LET refs == references_section(root)
        section == NodeAt(root, refs)
        items == find_children(section, {"li"})
        listitems == SelectSeq(find_all(section, {"div"}),
                               LAMBDA n : n.attrs.role = "listitem")
        blocks == find_children(section, {"div", "p"})
        candidates == IF items # <<>> THEN items
                      ELSE IF listitems # <<>> THEN listitems
                      ELSE blocks
        from_section ==
            IF refs = NoPath THEN <<>>
            ELSE distinct_entries([i \in 1..Len(candidates) |->
                                      clean_reference_entry(candidates[i])])
        in_refs_ids == SelectSeq(DictKeys(ctx.footnote_in_refs),
                           LAMBDA fid : DictGet(ctx.footnote_in_refs, fid, FALSE))
        ordered_ids == Sorted(in_refs_ids, reference_sort_key_less)
        from_in_refs ==
            distinct_entries([i \in 1..Len(ordered_ids) |->
                                 DictGet(ctx.footnote_map, ordered_ids[i], "")])
        from_map ==
            distinct_entries([i \in 1..Len(ctx.footnote_map) |->
                                 ctx.footnote_map[i].v])
    IN IF from_section # <<>> THEN from_section
       ELSE IF ctx.footnote_map = <<>> THEN <<>>
       ELSE IF from_in_refs # <<>> THEN from_in_refs
       ELSE from_map

\* ------------------------------------------------------------------------
\* Output Assembler: the primary pass over the article wrappers
\* ------------------------------------------------------------------------

\* "=" * 80
Rule == "================================================================================"

\* soup.find("article")   (line 711)
article(root) == FirstPath(SelectPaths(root, LAMBDA n : n.name = "article"))

\* article.find("div", {"data-core-wrapper": which})   (lines 715, 770)
core_wrapper(root, which) ==
    LET art == article(root)
        found == SelectPaths(NodeAt(root, art),
                     LAMBDA n : n.name = "div" /\ n.attrs.data_core_wrapper = which)
    IN IF art = NoPath \/ found = <<>> THEN NoPath ELSE art \o found[1]

header_wrapper(root) == core_wrapper(root, "header")
content_wrapper(root) == core_wrapper(root, "content")

\* soup.find_all("meta", {"name": name})
meta_named(root, name) ==
    SelectSeq(find_all(root, {"meta"}), LAMBDA n : n.attrs.name = name)

\* the distinct non-empty values, in order   (lines 733-736, 759-763)
distinct_values(values) ==
    LET RECURSIVE Loop(_, _)
        Loop(i, kept) ==
            IF i > Len(values) THEN kept
            ELSE IF values[i] # "" /\ ~InSeq(values[i], kept)
            THEN Loop(i + 1, Append(kept, values[i]))
            ELSE Loop(i + 1, kept)
    IN Loop(1, <<>>)

\* lines 721-728
header_title(root) ==
    LET named == meta_named(root, "citation_title")
        og == SelectSeq(find_all(root, {"meta"}),
                        LAMBDA n : n.attrs.property = "og:title")
        meta_title == IF named # <<>> THEN named ELSE og
        from_meta == IF meta_title # <<>> /\ meta_title[1].attrs.content # ""
                     THEN clean_text(meta_title[1].attrs.content) ELSE ""
        title_tags == find_all(NodeAt(root, header_wrapper(root)), {"h1"})
    IN IF from_meta # "" THEN from_meta
       ELSE IF title_tags # <<>> THEN clean_text(get_text_strip(title_tags[1], " "))
       ELSE ""

\* lines 732-743
header_authors(root) ==
    LET metas == meta_named(root, "citation_author")
        author_meta == [i \in 1..Len(metas) |-> clean_text(metas[i].attrs.content)]
        authors == distinct_values(author_meta)
        tags == SelectSeq(find_all(NodeAt(root, header_wrapper(root)), {"a", "span"}),
                    LAMBDA n :
                        \/ n.name = "a" /\ n.attrs.rel = "author"
                        \/ n.name = "span" /\ n.attrs.data_test = "author-name"
                        \/ n.name = "span" /\ InSeq("author-name", n.attrs.class)
                        \/ n.attrs.itemprop = "name")
        names == [i \in 1..Len(tags) |->
                     clean_text(ReplaceAll(get_text_strip(tags[i], " "),
                                           "Search for articles by this author", ""))]
    IN IF authors # <<>> THEN authors
       ELSE distinct_values(SelectSeq(names, LAMBDA t : ~should_skip_text(t)))

\* the content attribute of the first meta tag with one of the names, tried
\* in order; "" when there is no such tag or it has no content
meta_content(root, names) ==
    LET RECURSIVE First(_)
        First(i) == IF i > Len(names) THEN <<>>
                    ELSE IF meta_named(root, names[i]) # <<>>
                    THEN meta_named(root, names[i])
                    ELSE First(i + 1)
        found == First(1)
    IN IF found # <<>> THEN found[1].attrs.content ELSE ""

\* lines 747-757: a line for a meta tag that has content
meta_line(label, content, ctx) ==
    IF content = "" THEN ctx
    ELSE append_line(label \o clean_text(content), 0, TRUE, ctx)

\* lines 744-745, 764-765: a line for a list that has members
list_line(label, members, ctx) ==
    IF members = <<>> THEN ctx
    ELSE append_line(label \o Join(members, ", "), 0, TRUE, ctx)

\* lines 716-767
header_pass(root, ctx0) ==
    LET banner == [ctx0 EXCEPT !.text_parts =
                      @ \o <<Rule \o "\n", "ARTICLE HEADER\n", Rule \o "\n\n">>]
        title == header_title(root)
        titled == IF title # "" THEN append_heading(1, title, banner) ELSE banner
        with_authors == list_line("Authors: ", header_authors(root), titled)
        with_journal == meta_line("Journal: ",
                            meta_content(root, <<"citation_journal_title">>),
                            with_authors)
        with_date == meta_line("Publication Date: ",
                         meta_content(root, <<"citation_publication_date", "dc.Date">>),
                         with_journal)
        with_doi == meta_line("DOI: ", meta_content(root, <<"citation_doi">>),
                              with_date)
        metas == meta_named(root, "citation_keywords")
        keywords == distinct_values([i \in 1..Len(metas) |->
                                        clean_text(metas[i].attrs.content)])
        with_keywords == list_line("Keywords: ", keywords, with_doi)
    IN ensure_paragraph_break(with_keywords)

\* lines 772-774
content_banner(ctx) ==
    [ctx EXCEPT !.text_parts =
        @ \o <<"\n" \o Rule \o "\n", "ARTICLE CONTENT\n", Rule \o "\n\n">>]

\* ------------------------------------------------------------------------
\* Output Assembler: the fallback pass over the legacy selectors
\* ------------------------------------------------------------------------

\* lines 803-806: the p and div tags of the abstract
abstract_lines(section) ==
    LET elems == find_all(section, {"p", "div"})
        texts == [i \in 1..Len(elems) |-> get_text_strip(elems[i], " ")]
        kept == SelectSeq(texts, LAMBDA t : t # "")
    IN [i \in 1..Len(kept) |-> kept[i] \o "\n"]

\* lines 812-821 and 827-836: the headings and paragraphs of a legacy section
legacy_lines(root, section_path, headings) ==
    LET section == NodeAt(root, section_path)
        elems == SelectPaths(section, LAMBDA n : n.name \in headings \cup {"p"})
        RECURSIVE Loop(_)
        Loop(i) ==
            IF i > Len(elems) THEN <<>>
            ELSE LET elem == NodeAt(section, elems[i]) IN
                 IF elem.name \in headings
                 THEN LET elem_text == get_text_strip(elem, "") IN
                      (IF elem_text # ""
                       THEN <<"\n" \o Hashes(heading_level(elem.name)) \o " "
                              \o elem_text \o "\n\n">>
                       ELSE <<>>) \o Loop(i + 1)
                 ELSE LET elem_text == get_text_strip(elem, " ") IN
                      (IF elem_text # ""
                          /\ find_parent(root, section_path \o elems[i], {"figure"}) = NoPath
                       THEN <<elem_text \o "\n">>
                       ELSE <<>>) \o Loop(i + 1)
    IN Loop(1)

\* soup.find("section", id=id)
section_with_id(root, id) ==
    FirstPath(SelectPaths(root, LAMBDA n : n.name = "section" /\ n.attrs.id = id))

\* lines 783-836: what the fallback appends to text_parts
fallback_parts(root) ==
    LET named == SelectSeq(find_all(root, {"h1"}), LAMBDA n : n.attrs.property = "name")
        any == find_all(root, {"h1"})
        title_elem == IF named # <<>> THEN named ELSE any
        title == IF title_elem = <<>> THEN "" ELSE get_text_strip(title_elem[1], "")
        authors_elem == SelectSeq(find_all(root, {"div"}),
                                  LAMBDA n : InSeq("contributors", n.attrs.class))
        authors == IF authors_elem = <<>> THEN ""
                   ELSE get_text_strip(authors_elem[1], ", ")
        abstract_elem == section_with_id(root, "author-abstract")
        intro_elem == section_with_id(root, "introduction")
        body_elem == section_with_id(root, "bodymatter")
    IN (IF title # "" THEN <<"# " \o title \o "\n\n">> ELSE <<>>)
       \o (IF authors # "" THEN <<"AUTHORS: " \o authors \o "\n\n">> ELSE <<>>)
       \o (IF abstract_elem = NoPath THEN <<>>
           ELSE <<"## ABSTRACT\n\n">> \o abstract_lines(NodeAt(root, abstract_elem)))
       \o (IF intro_elem = NoPath THEN <<>>
           ELSE <<"\n## INTRODUCTION\n\n">>
                \o legacy_lines(root, intro_elem, {"h2", "h3", "h4"}))
       \o (IF body_elem = NoPath THEN <<>>
           ELSE <<"\n## MAIN CONTENT\n\n">>
                \o legacy_lines(root, body_elem, {"h2", "h3", "h4", "h5", "h6"}))

\* the test the other way: no line, heading or table came from the wrappers
fallback_needed_no_lines(ctx) ==
    \A i \in 1..Len(ctx.events) :
        ctx.events[i].op \notin {"line", "heading", "table"}

\* line 780: whether the fallback runs
fallback_needed(ctx) == ctx.text_parts = <<>>

\* lines 780-836; the history keeps whether the fallback ran and how many
\* entries text_parts held when the two passes were over
fallback_pass(root, ctx) ==
    LET Passed(after, ran) ==
            Log(after, Event("fallback", "", Len(after.text_parts), ran, ""))
    IN IF fallback_needed(ctx)
       THEN Passed([ctx EXCEPT !.text_parts = @ \o fallback_parts(root)], TRUE)
       ELSE Passed(ctx, FALSE)

\* ------------------------------------------------------------------------
\* Output Assembler: figures, the last section, references and the result
\* ------------------------------------------------------------------------

\* tag.decompose() for every tag below node that satisfies Test
decompose_all(node, Test(_)) ==
    LET RECURSIVE Go(_)
        Go(n) == LET kept == SelectSeq(n.children, LAMBDA c : ~(IsTag(c) /\ Test(c)))
                 IN [n EXCEPT !.children = [i \in 1..Len(kept) |-> Go(kept[i])]]
    IN Go(node)

\* the tree with the node at path replaced
ReplaceAt(root, path, new) ==
    LET RECURSIVE Go(_, _)
        Go(node, i) ==
            IF i > Len(path) THEN new
            ELSE [node EXCEPT !.children[path[i]] = Go(@, i + 1)]
    IN Go(root, 1)

\* lines 850-858: the caption without its dropdown blocks
strip_dropdowns(caption) ==
    LET without_holders ==
            decompose_all(caption,
                LAMBDA n : n.name = "div" /\ InSeq("dropBlock__holder", n.attrs.class))
    IN decompose_all(without_holders,
           LAMBDA n : /\ n.name = "span"
                      /\ InSeq("dropBlock", n.attrs.class)
                      /\ ~\E i \in 1..Len(find_all(n, {"a"})) :
                             find_all(n, {"a"})[i].attrs.role = "doc-biblioref")

\* "".join(extract_text_with_refs(tag)).strip()
inline_text(tag) == Strip(Concat(extract_text_with_refs(tag)))

caption_controls ==
    <<"Hide caption", "Figure viewer", "Show caption", "Collapse", "Expand">>

min_caption_length == 10

\* lines 861-886: the label and title line of a caption, <<>> without both
caption_heading(caption, idx) ==
    LET labels == SelectSeq(find_all(caption, {"span"}),
                            LAMBDA n : InSeq("label", n.attrs.class))
        titles == SelectSeq(find_all(caption, {"span"}),
                            LAMBDA n : InSeq("figure__title__text", n.attrs.class))
        Heading(label_text, title_text) ==
            IF title_text # ""
            THEN [text |-> <<"\n### " \o label_text, ": " \o title_text, "\n\n">>,
                  caption |-> <<label_text \o ": " \o title_text>>]
            ELSE [text |-> <<"\n### " \o label_text, "\n\n">>,
                  caption |-> <<label_text>>]
    IN IF labels = <<>> /\ titles = <<>>
       THEN [text |-> <<>>, caption |-> <<>>]
       ELSE Heading(IF labels # <<>> THEN inline_text(labels[1])
                    ELSE "Figure " \o Digits(idx),
                    IF titles # <<>> THEN inline_text(titles[1]) ELSE "")

\* lines 889-930: the paragraphs of the caption at path in root
caption_body(root, path) ==
    LET WithClass(c) == SelectPaths(NodeAt(root, path),
                            LAMBDA n : n.name = "div" /\ InSeq(c, n.attrs.class))
        content_path ==
            IF WithClass("figure__caption__text__content") # <<>>
            THEN path \o WithClass("figure__caption__text__content")[1]
            ELSE IF WithClass("accordion__content") # <<>>
            THEN path \o WithClass("accordion__content")[1]
            ELSE path
        caption_paras == SelectPaths(NodeAt(root, content_path),
                                     LAMBDA n : n.name \in {"div", "p"})
        Kept(para, span, para_text) ==
            IF InSeq("button", para.attrs.class) THEN <<>>
            ELSE IF span # NoPath /\ AnyClassHas(NodeAt(root, span).attrs.class, "label")
            THEN <<>>
            ELSE IF Len(para_text) > min_caption_length
                    /\ ~InSeq(para_text, caption_controls)
            THEN <<para_text>>
            ELSE <<>>
        RECURSIVE Paras(_, _)
        Paras(at, i) ==
            IF i > Len(caption_paras) THEN <<>>
            ELSE Kept(NodeAt(root, at \o caption_paras[i]),
                      find_parent(root, at \o caption_paras[i], {"span"}),
                      CollapseSpaces(inline_text(NodeAt(root, at \o caption_paras[i]))))
                 \o Paras(at, i + 1)
        RECURSIVE WithoutControls(_, _)
        WithoutControls(text, i) ==
            IF i > Len(caption_controls) THEN text
            ELSE WithoutControls(ReplaceAll(text, caption_controls[i], ""), i + 1)
        Whole(caption_text) ==
            IF caption_text = "" THEN <<>>
            ELSE SelectSeq(<<clean_text(WithoutControls(caption_text, 1))>>,
                           LAMBDA t : t # "")
    IN IF caption_paras # <<>> THEN Paras(content_path, 1)
       ELSE Whole(CollapseSpaces(inline_text(NodeAt(root, path))))

\* lines 839-938: the figures, taken in document order; acc holds the tree,
\* text_parts and figures_text
collect_figures(root, ctx) ==
    LET figures == SelectPaths(root, LAMBDA n : n.name = "figure")
        Captioned(acc, heading, body) ==
            [soup |-> acc.soup,
             text_parts |-> acc.text_parts \o heading.text
                            \o [i \in 1..Len(body) |-> body[i] \o "\n\n"],
             figures_text |->
                 IF heading.caption \o body = <<>> THEN acc.figures_text
                 ELSE Append(acc.figures_text, Join(heading.caption \o body, "\n"))]
        Collected(acc, path, idx) ==
            Captioned(acc, caption_heading(NodeAt(acc.soup, path), idx),
                      caption_body(acc.soup, path))
        Cleaned(acc, path) ==
            [acc EXCEPT !.soup = ReplaceAt(@, path, strip_dropdowns(NodeAt(@, path)))]
        Figure(acc, figure, captions, idx) ==
            IF captions = <<>> THEN acc
            ELSE Collected(Cleaned(acc, figure \o captions[1]),
                           figure \o captions[1], idx)
        RECURSIVE Loop(_, _)
        Loop(idx, acc) ==
            IF idx > Len(figures) THEN acc
            ELSE Loop(idx + 1,
                      Figure(acc, figures[idx],
                             SelectPaths(NodeAt(acc.soup, figures[idx]),
                                         LAMBDA n : n.name = "figcaption"),
                             idx))
        Result(done) ==
            [soup |-> done.soup,
             ctx |-> [ctx EXCEPT
                        !.text_parts = done.text_parts,
                        !.json_data =
                            IF done.figures_text = <<>> THEN @
                            ELSE DictSet(@, "figures", Join(done.figures_text, "\n\n"))]]
    IN IF figures = <<>> THEN [soup |-> root, ctx |-> ctx]
       ELSE Result(Loop(1, [soup |-> root,
                            text_parts |-> ctx.text_parts
                                \o <<"\n" \o Rule \o "\n", "FIGURES\n", Rule \o "\n\n">>,
                            figures_text |-> <<>>]))

\* lines 947-961
add_references(root, ctx) ==
    LET Numbered(reference_entries) ==
            [i \in 1..Len(reference_entries) |->
                Digits(i) \o ". " \o reference_entries[i]]
        Added(references_text) ==
            IF references_text # <<>>
               /\ ~Contains("REFERENCES", Join(ctx.text_parts, "\n"))
            THEN [ctx EXCEPT
                    !.text_parts =
                        @ \o <<"\n" \o Rule \o "\n", "REFERENCES\n", Rule \o "\n\n">>
                          \o [i \in 1..Len(references_text) |->
                                 references_text[i] \o "\n"],
                    !.json_data = DictSet(@, "references", Join(references_text, "\n"))]
            ELSE ctx
    IN Added(Numbered(get_reference_entries(root, ctx)))

\* ------------------------------------------------------------------------
\* State
\* ------------------------------------------------------------------------

VARIABLES
    pc,                     \* where the call stands
    page,                   \* the document the browser page holds
    soup,                   \* the parsed tree of the call
    json_data,
    current_section,
    current_section_parts,
    text_parts,
    recent_lines,
    pending_bullet_prefix,
    footnote_map,
    footnote_in_refs,
    footnote_elements,
    events,                 \* history of the closures' calls
    parts,                  \* the fragments extract_text_with_refs returned
    next_child,             \* the next child of the content wrapper to visit
    result,                 \* what the call returned
    returns,                \* what the calls made so far returned, in order,
                            \* and whether the call had raised
    calls_left              \* the calls the crawl loop has yet to make

\* the variables of the crawl loop of crawl_text_async
VARIABLES
    stage,                  \* where the crawl loop stands
    limit,                  \* the limit per journal; 0 is None (and 0): no limit
    crawl_archives,
    journals_left,          \* the journals of journal_slugs yet to crawl, the
                            \* current one included
    articles_left,          \* the articles of the loaded page yet to visit
    issues_left,            \* the issues of issue_links yet to crawl
    is_open_archive,        \* whether the issue being crawled is open archive
    journal_download_count,
    saved_files,            \* one entry per saved file: its journal and the
                            \* page it was found on
    open_access_articles,   \* one entry per recorded title
    article_metadata,       \* one entry per recorded (path, title, date)
    found_count,
    outcome                 \* what became of the article of the last turn

\* One nested call of the walker, for the indent it is passed
VARIABLES
    walk_node,              \* the node the call was made on
    walk_indent,            \* the indent the call was passed
    walk_events             \* what the call and the calls below it were passed

engine_vars ==
    << pc, page, soup, json_data, current_section, current_section_parts,
       text_parts, recent_lines, pending_bullet_prefix, footnote_map,
       footnote_in_refs, footnote_elements, events, parts, next_child,
       result, returns, calls_left >>

crawl_vars ==
    << stage, limit, crawl_archives, journals_left, articles_left, issues_left,
       is_open_archive, journal_download_count, saved_files,
       open_access_articles, article_metadata, found_count, outcome >>

walk_vars == << walk_node, walk_indent, walk_events >>

vars == << engine_vars, crawl_vars, walk_vars >>

\* the closure variables as one record
Ctx ==
    [json_data |-> json_data, current_section |-> current_section,
     current_section_parts |-> current_section_parts, text_parts |-> text_parts,
     recent_lines |-> recent_lines,
     pending_bullet_prefix |-> pending_bullet_prefix,
     footnote_map |-> footnote_map, footnote_in_refs |-> footnote_in_refs,
     footnote_elements |-> footnote_elements, events |-> events]

SetCtx(c) ==
    /\ json_data' = c.json_data
    /\ current_section' = c.current_section
    /\ current_section_parts' = c.current_section_parts
    /\ text_parts' = c.text_parts
    /\ recent_lines' = c.recent_lines
    /\ pending_bullet_prefix' = c.pending_bullet_prefix
    /\ footnote_map' = c.footnote_map
    /\ footnote_in_refs' = c.footnote_in_refs
    /\ footnote_elements' = c.footnote_elements
    /\ events' = c.events

\* the locals with another name for the section before the first heading
FreshCtxUntitled ==
    [json_data |-> <<>>, current_section |-> "untitled",
     current_section_parts |-> <<>>, text_parts |-> <<>>,
     recent_lines |-> <<>>, pending_bullet_prefix |-> "",
     footnote_map |-> <<>>, footnote_in_refs |-> <<>>,
     footnote_elements |-> {}, events |-> <<>>]

\* lines 79-92: the locals of a call as it creates them
FreshCtx ==
    [json_data |-> <<>>, current_section |-> "header",
     current_section_parts |-> <<>>, text_parts |-> <<>>,
     recent_lines |-> <<>>, pending_bullet_prefix |-> "",
     footnote_map |-> <<>>, footnote_in_refs |-> <<>>,
     footnote_elements |-> {}, events |-> <<>>]

\* the value of result while the call runs, the absence value, a returned
\* mapping, and an exception that leaves the call
Running == [kind |-> "running", value |-> <<>>]
None == [kind |-> "None", value |-> <<>>]
Mapping(d) == [kind |-> "dict", value |-> d]
Propagated == [kind |-> "exception", value |-> <<>>]

EmptyTree == El("[document]", NoAttrs, <<>>)

\* ------------------------------------------------------------------------
\* Inline runs: extract_text_with_refs and the paragraph rule of the walker
\* applied to one paragraph whose children are drawn from InlineVocab
\* ------------------------------------------------------------------------

MaxRun == 4

Cite(n) ==
    El("a", [NoAttrs EXCEPT !.role = "doc-biblioref"],
       <<El("sup", NoAttrs, <<Txt(n)>>)>>)

InlineVocab ==
    { Txt("Alpha"), Txt(" "), Txt(", "),
      Cite("1"), Cite("2"),
      El("a", [NoAttrs EXCEPT !.role = "doc-biblioref"], <<Txt("3")>>),
      El("sup", NoAttrs, <<Txt(",")>>),
      El("sub", NoAttrs, <<Txt(EnDash)>>),
      El("sup", NoAttrs, <<Txt("+")>>),
      El("span", NoAttrs, <<Txt(" and ")>>),
      El("em", NoAttrs, <<Cite("3")>>) }

InlineRuns == UNION { [1..n -> InlineVocab] : n \in 0..MaxRun }

\* no crawl is under way: the engine is called on its own
NoCrawl ==
    /\ stage = "idle"
    /\ limit = 0
    /\ crawl_archives = FALSE
    /\ journals_left = 0
    /\ articles_left = 0
    /\ issues_left = 0
    /\ is_open_archive = FALSE
    /\ journal_download_count = 0
    /\ saved_files = <<>>
    /\ open_access_articles = <<>>
    /\ article_metadata = <<>>
    /\ found_count = 0
    /\ outcome = ""

\* no nested call is followed
NoWalk ==
    /\ walk_node = EmptyTree
    /\ walk_indent = 0
    /\ walk_events = <<>>

InlineInit ==
    /\ pc = "inline"
    /\ page \in { El("p", NoAttrs, run) : run \in InlineRuns }
    /\ soup = page
    /\ json_data = FreshCtx.json_data
    /\ current_section = FreshCtx.current_section
    /\ current_section_parts = FreshCtx.current_section_parts
    /\ text_parts = FreshCtx.text_parts
    /\ recent_lines = FreshCtx.recent_lines
    /\ pending_bullet_prefix = FreshCtx.pending_bullet_prefix
    /\ footnote_map = FreshCtx.footnote_map
    /\ footnote_in_refs = FreshCtx.footnote_in_refs
    /\ footnote_elements = FreshCtx.footnote_elements
    /\ events = FreshCtx.events
    /\ parts = <<>>
    /\ next_child = 1
    /\ result = Running
    /\ returns = <<>>
    /\ calls_left = 0
    /\ NoCrawl
    /\ NoWalk

\* lines 659-685: the walker visits the paragraph
InlineVisit ==
    /\ pc = "inline"
    /\ parts' = extract_text_with_refs(soup)
    /\ SetCtx(append_content(soup, 0, Ctx))
    /\ pc' = "inline_done"
    /\ UNCHANGED <<page, soup, next_child, result, returns, calls_left, crawl_vars, walk_vars>>

InlineNext == InlineVisit

SpecInline == InlineInit /\ [][InlineNext]_vars

\* a citation anchor with a nested sup
IsCitation(c) ==
    /\ IsTag(c) /\ c.name = "a" /\ c.attrs.role = "doc-biblioref"
    /\ has_descendant(c, {"sup"})

\* the number a citation anchor shows
CitationNumber(c) == get_text_strip(find_all(c, {"sup"})[1], "")

\* nothing (white space), or a separator token in a sup, a sub or an inline
\* wrapper
IsSeparator(c) ==
    \/ ~IsTag(c) /\ Strip(c.text) = ""
    \/ /\ IsTag(c)
       /\ c.name \in {"sup", "sub", "span", "strong", "em", "i", "b"}
       /\ get_text_strip(c, "") \in separator_tokens
       /\ ~has_descendant(c, {"a"})

\* content that holds no citation: text, or a sup or sub that is no separator
IsPlain(c) ==
    \/ ~IsTag(c) /\ Strip(c.text) # ""
    \/ /\ IsTag(c) /\ c.name \in {"sup", "sub"}
       /\ get_text_strip(c, "") \notin separator_tokens
       /\ ~has_descendant(c, {"a"})

\* the citation at i starts a group: the nearest child before it that is
\* no separator is no citation
GroupStart(run, i) ==
    /\ IsCitation(run[i])
    /\ ~\E j \in 1..(i - 1) :
           /\ IsCitation(run[j])
           /\ \A m \in (j + 1)..(i - 1) : IsSeparator(run[m])

\* the citations of the group that starts at s, in encounter order
GroupMembers(run, s) ==
    SelectSeq([i \in 1..Len(run) |-> i],
              LAMBDA m : /\ m >= s /\ IsCitation(run[m])
                         /\ \A x \in s..m : IsCitation(run[x]) \/ IsSeparator(run[x]))

GroupAnnotation(run, s) ==
    LET members == GroupMembers(run, s) IN
    " (Ref: "
    \o Join([k \in 1..Len(members) |-> CitationNumber(run[members[k]])], ", ")
    \o ")"

\* one annotation per group of consecutive citations, in order
ExpectedAnnotations(run) ==
    LET starts == SelectSeq([i \in 1..Len(run) |-> i], LAMBDA i : GroupStart(run, i))
    IN [k \in 1..Len(starts) |-> GroupAnnotation(run, starts[k])]

IsAnnotation(fragment) == StartsWith(fragment, " (Ref: ")

\* the run ends with a group of citations (separators may follow it)
EndsWithGroup(run) ==
    \E i \in 1..Len(run) :
        /\ IsCitation(run[i])
        /\ \A m \in (i + 1)..Len(run) : IsSeparator(run[m])

\* C1: in a run of citations, separators and plain content, every group of N
\* consecutive citation anchors separated by nothing or by separator tokens
\* gives exactly one annotation (Ref: n1, ..., nN) with the numbers in
\* encounter order, and no other annotation appears; when the run ends with
\* such a group the paragraph line ends with its annotation, so two adjacent
\* anchors 1 and 2 give a paragraph ending in (Ref: 1, 2).
C1_CitationGrouping ==
    LET run == soup.children
        annotations == ExpectedAnnotations(run)
    IN
    (/\ pc = "inline_done"
     /\ \A i \in 1..Len(run) :
            IsCitation(run[i]) \/ IsSeparator(run[i]) \/ IsPlain(run[i]))
    => /\ SelectSeq(parts, IsAnnotation) = annotations
       /\ EndsWithGroup(run) =>
             /\ current_section_parts # <<>>
             /\ EndsWith(Last(current_section_parts),
                         Strip(Last(annotations)) \o "\n")

C1_Witness ==
    /\ pc = "inline_done"
    /\ soup.children = <<Txt("Alpha"), Cite("1"), Cite("2")>>
    /\ parts = <<"Alpha", " (Ref: 1, 2)">>
    /\ current_section_parts = <<"Alpha (Ref: 1, 2)\n">>

\* ------------------------------------------------------------------------
\* The documents a page can serve
\* ------------------------------------------------------------------------

Doc(head, body) ==
    El("[document]", NoAttrs,
       <<El("html", NoAttrs, <<El("head", NoAttrs, head), El("body", NoAttrs, body)>>)>>)

Meta(name, content) ==
    El("meta", [NoAttrs EXCEPT !.name = name, !.content = content], <<>>)

Wrapper(which, children) ==
    El("div", [NoAttrs EXCEPT !.data_core_wrapper = which], children)

Article(children) == El("article", NoAttrs, children)

Block(name, text) == El(name, NoAttrs, <<Txt(text)>>)

Classed(name, class, children) ==
    El(name, [NoAttrs EXCEPT !.class = <<class>>], children)

WithId(name, id, children) == El(name, [NoAttrs EXCEPT !.id = id], children)

Table2x2 ==
    El("table", NoAttrs,
       <<El("tr", NoAttrs, <<Block("th", "Gene"), Block("th", "Fold")>>),
         El("tr", NoAttrs, <<Block("td", "Abc1"), Block("td", "2.5")>>)>>)

Caption ==
    El("figcaption", NoAttrs,
       <<Classed("span", "label", <<Txt("Figure 1")>>),
         Classed("span", "figure__title__text", <<Txt("Overview "), Cite("2")>>),
         Classed("div", "figure__caption__text__content",
            <<El("div", [NoAttrs EXCEPT !.role = "paragraph"],
                 <<Txt("Cells were imaged daily")>>),
              Classed("div", "dropBlock__holder", <<Txt("Full reference details")>>),
              Block("div", "Hide caption")>>)>>)

\* one document for each shape the assembler tells apart
ShapeDocs ==
    { Doc(<<>>, <<>>),
      Doc(<<>>, <<Article(<<Block("p", "Alpha beta")>>)>>),
      Doc(<<>>, <<Article(<<Wrapper("header", <<>>)>>)>>),
      Doc(<<>>, <<Article(<<Wrapper("header", <<>>), Wrapper("content", <<>>)>>),
                  WithId("section", "introduction", <<Block("p", "Legacy text")>>)>>),
      Doc(<<Meta("citation_title", "Cell  Atlas"), Meta("citation_author", "Ann Lee"),
            Meta("citation_author", "Ann Lee"), Meta("citation_author", "Bo Chen"),
            Meta("citation_journal_title", "Cell"),
            Meta("dc.Date", "2024-01-05"), Meta("citation_doi", "10.1/j.cell"),
            Meta("citation_keywords", "atlas"), Meta("citation_keywords", "")>>,
          <<Article(<<Wrapper("header", <<Block("h1", "Visible Title")>>),
                      Wrapper("content", <<Block("p", "Alpha beta")>>)>>)>>),
      Doc(<<>>,
          <<Article(<<Wrapper("header",
                <<Block("h1", "Visible Title"),
                  El("a", [NoAttrs EXCEPT !.rel = "author"], <<Txt("Ann Lee")>>),
                  Classed("span", "author-name",
                      <<Txt("Bo Chen Search for articles by this author")>>),
                  El("span", [NoAttrs EXCEPT !.itemprop = "name"], <<Txt("Ann Lee")>>)>>)>>)>>),
      Doc(<<>>,
          <<El("h1", [NoAttrs EXCEPT !.property = "name"], <<Txt("Legacy Title")>>),
            Classed("div", "contributors", <<Block("span", "Ann Lee"), Block("span", "Bo Chen")>>),
            WithId("section", "author-abstract", <<Block("p", "Abstract text")>>),
            WithId("section", "introduction",
                <<Block("h2", "Background"), Block("p", "Intro text")>>),
            WithId("section", "bodymatter",
                <<Block("h3", "Methods"), Block("p", "Body text"),
                  El("figure", NoAttrs, <<Block("p", "Inside figure")>>)>>)>>),
      Doc(<<>>, <<El("figure", NoAttrs, <<El("img", NoAttrs, <<>>)>>)>>),
      Doc(<<>>, <<Article(<<Wrapper("content",
                      <<El("figure", NoAttrs, <<Caption, Table2x2>>)>>)>>),
                  El("figure", NoAttrs,
                     <<Block("figcaption", "Plain caption Figure viewer")>>)>>),
      Doc(<<>>,
          <<Article(<<Wrapper("content",
                <<El("p", NoAttrs, <<Txt("Alpha beta"), Cite("1")>>),
                  WithId("section", "references",
                      <<El("div", [NoAttrs EXCEPT !.role = "listitem"],
                           <<WithId("a", "bib2", <<>>), Txt("2. Lee A. Cell"),
                             Block("a", "Google Scholar")>>),
                        El("div", [NoAttrs EXCEPT !.role = "listitem"],
                           <<WithId("a", "bib1", <<>>), Txt("1. Chen B. Neuron")>>)>>)>>)>>)>>),
      Doc(<<>>,
          <<Block("nav", "Menu"), Block("button", "Share"),
            Article(<<Wrapper("content",
                <<Block("p", "Alpha beta"),
                  Classed("div", "Show-More-link", <<Txt("Show more")>>),
                  Block("aside", "Related")>>)>>)>>) }

\* a document whose content wrapper holds the given blocks
BlockDoc(blocks) == Doc(<<>>, <<Article(<<Wrapper("content", blocks)>>)>>)

MaxBlocks == 3

BlockRuns(vocab) == UNION { [1..n -> vocab] : n \in 0..MaxBlocks }

\* headings, text and paragraphs: the events of the section accumulator
SectionVocab ==
    { Txt("Alpha beta"), Block("p", "Gamma delta"), Txt("+"),
      Block("h2", "Results And Discussion"), Block("h2", "Header"),
      Block("h2", "STAR" \o Star \o "Methods"), Block("h3", "Details") }

\* text, containers, lists, tables and figure-like tags
WalkerVocab ==
    { Txt("Alpha beta"),
      El("section", NoAttrs, <<Txt("Alpha beta")>>),
      El("ul", NoAttrs, <<Block("li", "Alpha beta"), Block("li", "Alpha beta")>>),
      Table2x2,
      El("figure", NoAttrs, <<Block("figcaption", "Growth curves by day"),
                              Table2x2, Block("p", "Inside figure")>>),
      Classed("div", "Figure-Wrap", <<Block("p", "Alpha beta"), Table2x2>>),
      El("div", [NoAttrs EXCEPT !.data_component = "Figure"],
         <<Block("p", "Inside figure")>>) }

SectionDocs == { BlockDoc(run) : run \in BlockRuns(SectionVocab) }
WalkerDocs == { BlockDoc(run) : run \in BlockRuns(WalkerVocab) }
PairDocs == { BlockDoc(<<a, b>>) : a, b \in SectionVocab \cup WalkerVocab }

\* paragraphs that cite notes through a superscript, notes in the body, and
\* reference sections of three layouts
NoteVocab ==
    { El("p", NoAttrs,
         <<Txt("Alpha beta"),
           El("sup", NoAttrs,
              <<El("a", [NoAttrs EXCEPT !.href = "#bib12"], <<Txt("a")>>)>>)>>),
      El("p", NoAttrs,
         <<Txt("Gamma delta"),
           El("sup", [NoAttrs EXCEPT !.data_rid = "Ref3, bib12 #REF3"], <<Txt("b")>>)>>),
      WithId("div", "bib12", <<Txt("12. Side note")>>),
      El("li", [NoAttrs EXCEPT !.class = <<"reference">>, !.id = "Ref3"],
         <<Txt("Other note")>>),
      WithId("section", "references",
         <<El("li", NoAttrs, <<WithId("a", "bib12", <<>>), Txt("12. Lee A. Cell")>>),
           Block("li", "12: LEE A. Cell")>>),
      WithId("section", "references",
         <<El("ul", NoAttrs,
              <<WithId("li", "ref3", <<Txt("3. Chen B. Neuron")>>)>>)>>),
      WithId("section", "references",
         <<Block("p", "4. Smith J. Nature"), Block("div", "Full Text (PDF)")>>) }

NoteDocs == { BlockDoc(run) : run \in BlockRuns(NoteVocab) }

\* figures with captions among the headings and paragraphs of the body
FigureVocab ==
    { Block("h2", "Figures"), Block("h2", "Results And Discussion"),
      Block("p", "Gamma delta"),
      El("figure", NoAttrs, <<Caption>>),
      El("figure", NoAttrs, <<Block("figcaption", "Growth curves by day")>>),
      El("section", NoAttrs,
         <<El("figure", NoAttrs, <<Block("figcaption", "Short"), Table2x2>>)>>) }

\* the figures in a document with the wrappers, and next to a legacy section
FigureDocs ==
    { BlockDoc(run) : run \in BlockRuns(FigureVocab) }
    \cup { Doc(<<>>, <<WithId("section", "introduction", run)>>) :
               run \in BlockRuns(FigureVocab) }

\* ------------------------------------------------------------------------
\* extract_fulltext_as_json, step by step
\* ------------------------------------------------------------------------

MaxCalls == 2

\* locals whose window of recent lines outlives the call, as a module-level
\* deque would
stale_locals(previous) ==
    [FreshCtx EXCEPT !.recent_lines = previous.recent_lines]

\* lines 79-92: the locals a call creates, whatever an earlier call left
new_locals(previous) == FreshCtx

\* lines 965-970
returned_value(ctx) ==
    IF ctx.json_data # <<>> \/ Strip(Concat(ctx.text_parts)) # ""
    THEN Mapping(ctx.json_data)
    ELSE None

\* a handler that logs the exception and raises it again
except_result_reraise(raised) == Propagated

\* lines 972-975: what the call gives when an exception reached the handler
except_result(raised) == None

\* the steps between the entry of the call and its return
InFlight ==
    { "goto", "loaded", "pruned", "ready", "indexed", "header_done", "walking",
      "primary_done", "fallback_done", "figures_done", "flushed", "assembled" }

Engine(documents, calls) ==
    /\ pc = "idle"
    /\ page \in documents
    /\ soup = EmptyTree
    /\ json_data = FreshCtx.json_data
    /\ current_section = FreshCtx.current_section
    /\ current_section_parts = FreshCtx.current_section_parts
    /\ text_parts = FreshCtx.text_parts
    /\ recent_lines = FreshCtx.recent_lines
    /\ pending_bullet_prefix = FreshCtx.pending_bullet_prefix
    /\ footnote_map = FreshCtx.footnote_map
    /\ footnote_in_refs = FreshCtx.footnote_in_refs
    /\ footnote_elements = FreshCtx.footnote_elements
    /\ events = FreshCtx.events
    /\ parts = <<>>
    /\ next_child = 1
    /\ result = Running
    /\ returns = <<>>
    /\ calls_left = calls

\* the engine is about to be called on a document, outside of any crawl
Start(documents, calls) == Engine(documents, calls) /\ NoCrawl /\ NoWalk

\* line 39: the crawl loop calls the engine for the page
Call ==
    /\ pc = "idle"
    /\ calls_left > 0
    /\ calls_left' = calls_left - 1
    /\ result' = Running
    /\ pc' = "goto"
    /\ UNCHANGED <<page, soup, json_data, current_section, current_section_parts,
                   text_parts, recent_lines, pending_bullet_prefix, footnote_map,
                   footnote_in_refs, footnote_elements, events, parts, next_child,
                   returns, crawl_vars, walk_vars>>

\* lines 60-65: the page is loaded and its content parsed
Navigate ==
    /\ pc = "goto"
    /\ soup' = page
    /\ pc' = "loaded"
    /\ UNCHANGED <<page, json_data, current_section, current_section_parts,
                   text_parts, recent_lines, pending_bullet_prefix, footnote_map,
                   footnote_in_refs, footnote_elements, events, parts, next_child,
                   result, returns, calls_left, crawl_vars, walk_vars>>

\* lines 67-77
Prune ==
    /\ pc = "loaded"
    /\ soup' = prune(soup)
    /\ pc' = "pruned"
    /\ UNCHANGED <<page, json_data, current_section, current_section_parts,
                   text_parts, recent_lines, pending_bullet_prefix, footnote_map,
                   footnote_in_refs, footnote_elements, events, parts, next_child,
                   result, returns, calls_left, crawl_vars, walk_vars>>

\* lines 79-92
Locals ==
    /\ pc = "pruned"
    /\ SetCtx(new_locals(Ctx))
    /\ pc' = "ready"
    /\ UNCHANGED <<page, soup, parts, next_child, result, returns, calls_left, crawl_vars, walk_vars>>

\* line 708
BuildFootnoteMap ==
    /\ pc = "ready"
    /\ LET Indexed(index) ==
               SetCtx([Ctx EXCEPT !.footnote_map = index.footnote_map,
                                  !.footnote_in_refs = index.footnote_in_refs,
                                  !.footnote_elements = index.footnote_elements])
       IN Indexed(build_footnote_map(soup))
    /\ pc' = "indexed"
    /\ UNCHANGED <<page, soup, parts, next_child, result, returns, calls_left, crawl_vars, walk_vars>>

\* lines 711-767
HeaderPass ==
    /\ pc = "indexed"
    /\ SetCtx(IF header_wrapper(soup) # NoPath THEN header_pass(soup, Ctx) ELSE Ctx)
    /\ pc' = "header_done"
    /\ UNCHANGED <<page, soup, parts, next_child, result, returns, calls_left, crawl_vars, walk_vars>>

\* lines 770-774
ContentStart ==
    /\ pc = "header_done"
    /\ IF content_wrapper(soup) # NoPath
       THEN SetCtx(content_banner(Ctx)) /\ pc' = "walking"
       ELSE SetCtx(Ctx) /\ pc' = "primary_done"
    /\ next_child' = 1
    /\ UNCHANGED <<page, soup, parts, result, returns, calls_left, crawl_vars, walk_vars>>

\* lines 776-777: one child of the content wrapper
WalkChild ==
    /\ pc = "walking"
    /\ next_child <= Len(NodeAt(soup, content_wrapper(soup)).children)
    /\ SetCtx(append_content(NodeAt(soup, content_wrapper(soup)).children[next_child],
                             0, Ctx))
    /\ next_child' = next_child + 1
    /\ UNCHANGED <<pc, page, soup, parts, result, returns, calls_left, crawl_vars, walk_vars>>

\* the loop of line 776 ends
ContentEnd ==
    /\ pc = "walking"
    /\ next_child > Len(NodeAt(soup, content_wrapper(soup)).children)
    /\ pc' = "primary_done"
    /\ UNCHANGED <<page, soup, json_data, current_section, current_section_parts,
                   text_parts, recent_lines, pending_bullet_prefix, footnote_map,
                   footnote_in_refs, footnote_elements, events, parts, next_child,
                   result, returns, calls_left, crawl_vars, walk_vars>>

\* lines 780-836
Fallback ==
    /\ pc = "primary_done"
    /\ SetCtx(fallback_pass(soup, Ctx))
    /\ pc' = "fallback_done"
    /\ UNCHANGED <<page, soup, parts, next_child, result, returns, calls_left, crawl_vars, walk_vars>>

\* lines 839-938
Figures ==
    /\ pc = "fallback_done"
    /\ LET Collected(done) == soup' = done.soup /\ SetCtx(done.ctx)
       IN Collected(collect_figures(soup, Ctx))
    /\ pc' = "figures_done"
    /\ UNCHANGED <<page, parts, next_child, result, returns, calls_left, crawl_vars, walk_vars>>

\* lines 941-944
LastSection ==
    /\ pc = "figures_done"
    /\ SetCtx(save_section(Ctx))
    /\ pc' = "flushed"
    /\ UNCHANGED <<page, soup, parts, next_child, result, returns, calls_left, crawl_vars, walk_vars>>

\* lines 947-961
References ==
    /\ pc = "flushed"
    /\ SetCtx(add_references(soup, Ctx))
    /\ pc' = "assembled"
    /\ UNCHANGED <<page, soup, parts, next_child, result, returns, calls_left, crawl_vars, walk_vars>>

\* lines 963-970
Return ==
    /\ pc = "assembled"
    /\ LET Returned(value) ==
               /\ result' = value
               /\ returns' = Append(returns, [result |-> value, raised |-> FALSE])
       IN Returned(returned_value(Ctx))
    /\ pc' = "idle"
    /\ UNCHANGED <<page, soup, json_data, current_section, current_section_parts,
                   text_parts, recent_lines, pending_bullet_prefix, footnote_map,
                   footnote_in_refs, footnote_elements, events, parts, next_child,
                   calls_left, crawl_vars, walk_vars>>

\* a step of the try block raises an Exception
Raise ==
    /\ pc \in InFlight
    /\ events' = Append(events, Event("raise", pc, 0, FALSE, ""))
    /\ pc' = "except"
    /\ UNCHANGED <<page, soup, json_data, current_section, current_section_parts,
                   text_parts, recent_lines, pending_bullet_prefix, footnote_map,
                   footnote_in_refs, footnote_elements, parts, next_child,
                   result, returns, calls_left, crawl_vars, walk_vars>>

\* lines 972-975
Except ==
    /\ pc = "except"
    /\ LET Returned(value) ==
               /\ result' = value
               /\ returns' = Append(returns, [result |-> value, raised |-> TRUE])
       IN Returned(except_result(Last(events)))
    /\ pc' = "idle"
    /\ UNCHANGED <<page, soup, json_data, current_section, current_section_parts,
                   text_parts, recent_lines, pending_bullet_prefix, footnote_map,
                   footnote_in_refs, footnote_elements, events, parts, next_child,
                   calls_left, crawl_vars, walk_vars>>

Init == Start(ShapeDocs \cup SectionDocs, 1)

Next ==
    \/ Call
    \/ Navigate
    \/ Prune
    \/ Locals
    \/ BuildFootnoteMap
    \/ HeaderPass
    \/ ContentStart
    \/ WalkChild
    \/ ContentEnd
    \/ Fallback
    \/ Figures
    \/ LastSection
    \/ References
    \/ Return
    \/ Raise
    \/ Except

Spec == Init /\ [][Next]_vars

\* the walker over lists, tables and figure-like tags
SpecWalker == Start(ShapeDocs \cup WalkerDocs, 1) /\ [][Next]_vars

\* paragraphs with cited notes, and the reference list
SpecNotes == Start(ShapeDocs \cup NoteDocs, 1) /\ [][Next]_vars

\* figures and their captions, after either pass
SpecFigures == Start(ShapeDocs \cup FigureDocs, 1) /\ [][Next]_vars

\* up to MaxCalls calls for the same page
SpecRepeat == Start(ShapeDocs \cup PairDocs, MaxCalls) /\ [][Next]_vars

\* ------------------------------------------------------------------------
\* The section accumulator, read off the history
\* ------------------------------------------------------------------------

\* what an event of the history added to the section buffer
Produced(e) ==
    IF e.op \in {"line", "table"} THEN <<e.text>>
    ELSE IF e.op = "heading" /\ e.n >= 3
    THEN <<Hashes(e.n) \o " " \o e.text \o "\n\n">>
    ELSE <<>>

IsTopHeading(e) == e.op = "heading" /\ e.n <= 2

\* the call reached its handler
Raised == events # <<>> /\ Last(events).op = "raise"

\* the end-of-document flush is over
Closed == pc \in {"flushed", "assembled"} \/ (pc = "idle" /\ returns # <<>>)

RECURSIVE FlushesFrom(_, _, _, _, _)
\* the flushes the headings of the history ev call for from its event i on,
\* a buffer being open for section, and the final one when closed
FlushesFrom(ev, i, section, buffer, closed) ==
    LET Flushed(content) ==
            IF content # "" THEN <<[k |-> section, v |-> content]>> ELSE <<>>
    IN IF i > Len(ev)
       THEN (IF closed THEN Flushed(Strip(Concat(buffer))) ELSE <<>>)
       ELSE IF IsTopHeading(ev[i])
       THEN Flushed(Strip(Concat(buffer)))
            \o FlushesFrom(ev, i + 1, ev[i].out, <<>>, closed)
       ELSE FlushesFrom(ev, i + 1, section, buffer \o Produced(ev[i]), closed)

\* the flushes that took place
Saves(ev) ==
    LET saved == SelectSeq(ev, LAMBDA e : e.op = "save")
    IN [i \in 1..Len(saved) |-> [k |-> saved[i].out, v |-> saved[i].text]]

\* the keys the figure and the reference stage write
AssemblyKeys == {"figures", "references"}

\* the content of the last flush of the key k
LastSaved(saves, k) ==
    saves[CHOOSE i \in 1..Len(saves) :
             /\ saves[i].k = k
             /\ \A j \in (i + 1)..Len(saves) : saves[j].k # k].v

\* every buffer with content is flushed once, by the top-level heading that
\* follows it or by the final flush, and no other flush takes place
FlushedOnce(saves) ==
    saves = FlushesFrom(events, 1, "header", <<>>, Closed)

NoTopHeading == \A i \in 1..Len(events) : ~IsTopHeading(events[i])

\* what the accumulator emitted, in order: lines, rendered tables and the
\* headings of level 3 to 6
Emitted(ev) ==
    LET RECURSIVE From(_)
        From(i) == IF i > Len(ev) THEN <<>> ELSE Produced(ev[i]) \o From(i + 1)
    IN From(1)

\* the call returned without raising
ReturnedNormally == pc = "idle" /\ returns # <<>> /\ ~Last(returns).raised

Fingerprint(e) == clean_text(e.text)

\* the fingerprints in the window when event j of ev took place
WindowBefore(ev, j) ==
    LET kept == SelectSeq(SubSeq(ev, 1, j - 1),
                          LAMBDA e : e.op \in {"line", "merged"})
        Window(keys) ==
            SubSeq(keys, Max(1, Len(keys) - recent_lines_maxlen + 1), Len(keys))
    IN Window([i \in 1..Len(kept) |-> Fingerprint(kept[i])])

\* append_line has a line to append for the text, leaving the window aside
Emittable(text) ==
    /\ clean_text(text) # ""
    /\ Strip(clean_text(text)) \notin {Bullet, MidDot, "+", "-", MinusSign}
    /\ ~should_skip_text(clean_text(text))

Occurrences(seq, x) == Cardinality({i \in 1..Len(seq) : seq[i] = x})

\* the walker renders a table for the child of the content wrapper
RendersTable(node) ==
    /\ IsTag(node)
    /\ node.name = "table" \/ is_figure_like(node)
    /\ find_all(node, {"table"}) # <<>> \/ node.name = "table"

\* C4: a line passed to append_line without allow_repeat while its
\* fingerprint is in the window of recent lines is not appended again, so it
\* appears once; a line passed with allow_repeat (list items) is appended at
\* every call, and every rendering of a table appends its rows again
C4_Dedup ==
    /\ \A j \in 1..Len(events) :
           events[j].op = "line" /\ ~events[j].flag =>
               ~InSeq(Fingerprint(events[j]), WindowBefore(events, j))
    /\ \A i \in 1..Len(events) :
           /\ events[i].op = "append_line"
           /\ events[i].flag
           /\ Emittable(events[i].text)
           => /\ i < Len(events)
              /\ events[i + 1].op = "line"
              /\ EndsWith(events[i + 1].text, clean_text(events[i].text) \o "\n")
    /\ LET Rendered(blocks) ==
               Occurrences(text_parts, "Gene | Fold\n") =
                   Cardinality({i \in 1..Len(blocks) : RendersTable(blocks[i])})
       IN /\ pc = "primary_done"
          /\ content_wrapper(soup) # NoPath
          /\ \A i \in 1..Len(NodeAt(soup, content_wrapper(soup)).children) :
                 NodeAt(soup, content_wrapper(soup)).children[i] \in WalkerVocab
          => Rendered(NodeAt(soup, content_wrapper(soup)).children)

\* the text node "Alpha beta" came twice and then a list with the item
\* "Alpha beta" twice: the text is there once and the item twice
C4_Witness ==
    /\ pc = "primary_done"
    /\ Len(SelectSeq(events, LAMBDA e : e.op = "append_line" /\ ~e.flag
                                        /\ e.text = "Alpha beta")) = 2
    /\ Occurrences(text_parts, "Alpha beta\n") = 1
    /\ Occurrences(text_parts, "- Alpha beta\n") = 2

\* ------------------------------------------------------------------------
\* The returned value
\* ------------------------------------------------------------------------

\* the primary and the fallback pass are over and they left no flattened
\* text and no line, heading or table of a section
PassesYieldedNothing ==
    /\ \E i \in 1..Len(events) : events[i].op = "fallback" /\ events[i].n = 0
    /\ Emitted(events) = <<>>
    /\ NoTopHeading

\* C5 as stated: whenever the primary and the fallback pass yield no sections
\* and no flattened text, the call returns None and not an empty mapping
C5_AbsenceNotEmptyMapping ==
    ReturnedNormally /\ PassesYieldedNothing => result = None

\* C6: no exception leaves the call: a call that raised at any of its steps
\* has returned None
C6_NoExceptionPropagates ==
    /\ result.kind # "exception"
    /\ \A i \in 1..Len(returns) :
           /\ returns[i].result.kind # "exception"
           /\ returns[i].raised => returns[i].result = None
    /\ pc = "idle" /\ Raised => result = None /\ Last(returns).raised

\* the walk of the content wrapper raised after it had emitted a line, and
\* the call returned None
C6_Witness ==
    /\ pc = "idle"
    /\ Raised
    /\ Last(events).text = "walking"
    /\ Emitted(events) # <<>>
    /\ result = None

\* ------------------------------------------------------------------------
\* Section keys
\* ------------------------------------------------------------------------

RECURSIVE SlugFrom(_, _, _)
\* the text from character i on, in lower case, with "_" for every space and
\* without the characters of drop
SlugFrom(text, i, drop) ==
    IF i > Len(text) THEN ""
    ELSE (IF Ch(text, i) \in drop THEN ""
          ELSE IF Ch(text, i) = " " THEN "_"
          ELSE LowerChar(Ch(text, i)))
         \o SlugFrom(text, i + 1, drop)

TopHeadings == SelectSeq(events, IsTopHeading)

\* C7, as the code has it: the section key of a top-level heading is its
\* text in lower case with spaces replaced by underscores and every star
\* removed; "Results And Discussion" yields results_and_discussion, two
\* headings of the same text yield the same key, and the section that the
\* heading opens is flushed under that key
C7_SectionKey ==
    /\ \A i \in 1..Len(TopHeadings) :
           /\ TopHeadings[i].out = SlugFrom(TopHeadings[i].text, 1, {Star})
           /\ TopHeadings[i].text = "Results And Discussion" =>
                  TopHeadings[i].out = "results_and_discussion"
           /\ \A j \in 1..Len(TopHeadings) :
                  TopHeadings[i].text = TopHeadings[j].text =>
                      TopHeadings[i].out = TopHeadings[j].out
    /\ pc \in {"walking", "primary_done"} /\ TopHeadings # <<>> =>
           current_section = Last(TopHeadings).out

\* the headings "Results And Discussion" and "STAR*Methods" were seen, the
\* first section was flushed under results_and_discussion and the open one
\* is starmethods
C7_Witness ==
    /\ pc = "primary_done"
    /\ Len(TopHeadings) = 2
    /\ TopHeadings[1].text = "Results And Discussion"
    /\ TopHeadings[2].text = "STAR" \o Star \o "Methods"
    /\ current_section = "starmethods"
    /\ DictHas(json_data, "results_and_discussion")

\* C7 as stated: the key is the text in lower case with spaces replaced by
\* underscores, and nothing else
C7_LowerUnderscore ==
    \A i \in 1..Len(TopHeadings) :
        TopHeadings[i].out = SlugFrom(TopHeadings[i].text, 1, {})

\* ------------------------------------------------------------------------
\* Repeated calls
\* ------------------------------------------------------------------------

\* C8: the calls made for the same unchanged page that returned without
\* raising, each from the locals it created, returned the same value: the
\* same keys in the same order with the same text
C8_Deterministic ==
    \A i, j \in 1..Len(returns) :
        ~returns[i].raised /\ ~returns[j].raised =>
            returns[i].result = returns[j].result

\* two calls returned, none raised, and the mapping has two sections
C8_Witness ==
    /\ Len(returns) = 2
    /\ ~returns[1].raised /\ ~returns[2].raised
    /\ returns[2].result.kind = "dict"
    /\ Len(returns[2].result.value) = 2
    /\ Len(recent_lines) >= 2

\* ------------------------------------------------------------------------
\* The fallback pass
\* ------------------------------------------------------------------------

FallbackRan == events # <<>> /\ Last(events).op = "fallback" /\ Last(events).flag

\* neither wrapper of the primary pass is in the tree
NoWrappers == header_wrapper(soup) = NoPath /\ content_wrapper(soup) = NoPath

\* the lines, headings and tables the primary pass emitted
ContentLines == SelectSeq(events, LAMBDA e : e.op \in {"line", "heading", "table"})

\* C9, as the code has it: the fallback pass runs exactly when the primary
\* pass appended nothing at all to the flattened output, banners included,
\* which is exactly when the document has no article with a header or content
\* wrapper; a wrapper that is there writes its banner and keeps the fallback
\* from running even when it yields no content line
C9_FallbackWithoutWrappers ==
    pc = "fallback_done" =>
        /\ FallbackRan <=> NoWrappers
        /\ ~FallbackRan =>
               /\ text_parts # <<>>
               /\ text_parts[1] \in {Rule \o "\n", "\n" \o Rule \o "\n"}
               /\ text_parts[2] \in {"ARTICLE HEADER\n", "ARTICLE CONTENT\n"}

\* a document without article ran the fallback, which found text
C9_Witness ==
    /\ pc = "fallback_done"
    /\ FallbackRan
    /\ article(soup) = NoPath
    /\ ContentLines = <<>>
    /\ text_parts # <<>>

\* C9 as stated: the fallback pass runs exactly when the primary pass emitted
\* no content line, a document whose wrappers yield no content line included
C9_FallbackOnZeroLines ==
    pc = "fallback_done" => (FallbackRan <=> ContentLines = <<>>)

\* ------------------------------------------------------------------------
\* Tables in figures
\* ------------------------------------------------------------------------

\* a figure tag, data-component "figure", or a class that holds "figure"
FigureLike(node) ==
    /\ IsTag(node)
    /\ \/ node.name = "figure"
       \/ Lower(node.attrs.data_component) = "figure"
       \/ \E i \in 1..Len(node.attrs.class) :
              Contains("figure", Lower(node.attrs.class[i]))

\* the walker handles the tag: it is no footnote element, no skipped tag, not
\* hidden and not the references section
Walked(node) ==
    /\ node \notin footnote_elements
    /\ node.name \notin skip_names
    /\ node.attrs.aria_hidden # "true"
    /\ Lower(node.attrs.id) # "references"

\* one line per row of the table with a non-empty cell, the cells joined by
\* " | "; the cells hold plain text
PipeRows(table) ==
    LET trs == find_all(table, {"tr"})
        Cells(tr) == [c \in 1..Len(find_all(tr, {"th", "td"})) |->
                         get_text_strip(find_all(tr, {"th", "td"})[c], "")]
        NonEmpty(cells) == \E c \in 1..Len(cells) : cells[c] # ""
        rows == SelectSeq([r \in 1..Len(trs) |-> Cells(trs[r])], NonEmpty)
    IN [r \in 1..Len(rows) |-> Join(rows[r], " | ") \o "\n"]

\* what the rendering of a table appends
TableRendering(table) == <<"\n", "[Table]\n">> \o PipeRows(table) \o <<"\n">>

\* C10: when the walker visits a figure-like child that holds a table with a
\* non-empty row, it appends a blank, the "[Table]" marker, one pipe-joined
\* line per non-empty row (two for a table of 2 by 2) and a blank to the
\* flattened output and to the section buffer, and nothing else: no line or
\* heading comes from the other children of the figure, and a figure-like
\* child without such a table adds nothing
C10_TableInFigure ==
    [][ LET Rendered(out) ==
                /\ text_parts' = text_parts \o out
                /\ current_section_parts' = current_section_parts \o out
            Only(child, table) ==
                FigureLike(child) /\ Walked(child) =>
                    IF table # <<>> /\ PipeRows(table[1]) # <<>>
                    THEN /\ Rendered(TableRendering(table[1]))
                         /\ table[1] = Table2x2 =>
                                Len(TableRendering(table[1])) = 5
                         /\ Len(events') = Len(events) + 2
                         /\ events'[Len(events')].op = "table"
                    ELSE Rendered(<<>>)
            Visited(child) == Only(child, find_all(child, {"table"}))
        IN pc = "walking" /\ pc' = "walking" /\ next_child' = next_child + 1
           => Visited(NodeAt(soup, content_wrapper(soup)).children[next_child])
      ]_vars

\* the first child of the content wrapper was a figure with a caption, the
\* table and a paragraph: after the banner the output holds the rendering of
\* the table and nothing of the caption or the paragraph
C10_Witness ==
    /\ pc = "walking"
    /\ next_child = 2
    /\ NodeAt(soup, content_wrapper(soup)).children[1].name = "figure"
    /\ has_descendant(NodeAt(soup, content_wrapper(soup)).children[1], {"figcaption"})
    /\ SubSeq(text_parts, 4, Len(text_parts)) =
           <<"\n", "[Table]\n", "Gene | Fold\n", "Abc1 | 2.5\n", "\n">>

\* ------------------------------------------------------------------------
\* Inline footnote enrichment
\* ------------------------------------------------------------------------

\* the sequences of a sequence, one after the other
Flatten(seqs) ==
    LET RECURSIVE From(_)
        From(i) == IF i > Len(seqs) THEN <<>> ELSE seqs[i] \o From(i + 1)
    IN From(1)

\* the normalized ids the superscripts of a node cite, in encounter order: the
\* ids a superscript carries itself, or else the ids of the anchors in it
CitedIds(node) ==
    LET sups == find_all(node, {"sup"})
        Anchored(sup) ==
            Flatten([a \in 1..Len(find_all(sup, {"a"})) |->
                        extract_candidate_ids(find_all(sup, {"a"})[a])])
        Cited(sup) == IF extract_candidate_ids(sup) # <<>>
                      THEN extract_candidate_ids(sup) ELSE Anchored(sup)
        ids == Flatten([i \in 1..Len(sups) |-> Cited(sups[i])])
    IN [i \in 1..Len(ids) |-> normalize_identifier(ids[i])]

\* the cited ids the index holds outside the references section, each once,
\* in encounter order
NoteIds(node) ==
    LET ids == CitedIds(node)
        Fresh(i) == /\ DictHas(footnote_map, ids[i])
                    /\ ~DictGet(footnote_in_refs, ids[i], FALSE)
                    /\ \A j \in 1..(i - 1) : ids[j] # ids[i]
        kept == SelectSeq([i \in 1..Len(ids) |-> i], Fresh)
    IN [i \in 1..Len(kept) |-> ids[kept[i]]]

\* the walker took the next child of the content wrapper, a paragraph, and
\* emitted a line for it
ParagraphLine(child) ==
    /\ pc = "walking" /\ pc' = "walking" /\ next_child' = next_child + 1
    /\ child.name = "p" /\ Walked(child)
    /\ Len(events') > Len(events)
    /\ events'[Len(events')].op = "line"

\* C11: when the walker emits the line of a body paragraph whose superscripts
\* cite ids that the footnote index holds with in_references = false, the
\* line ends with "(Footnote: t1; t2)", the index texts of those ids in
\* encounter order, each id once; a paragraph that cites no such id (its ids
\* are unknown, or indexed inside the references section) gets no annotation
C11_FootnoteAnnotation ==
    [][ LET Line == events'[Len(events')].text
            Texts(ids) == [i \in 1..Len(ids) |-> DictGet(footnote_map, ids[i], "")]
            Annotated(child, ids) ==
                IF ids # <<>>
                THEN EndsWith(Line, " (Footnote: " \o Join(Texts(ids), "; ") \o ")\n")
                ELSE ~Contains("(Footnote:", Line)
            Enriched(child) == ParagraphLine(child) => Annotated(child, NoteIds(child))
        IN pc = "walking"
           => Enriched(NodeAt(soup, content_wrapper(soup)).children[next_child])
      ]_vars

\* a paragraph citing ref3 twice and bib12 through one superscript was
\* emitted while both notes stand in the body: its line ends with the two
\* note texts in the order the ids were met
C11_Witness ==
    /\ pc = "walking"
    /\ events # <<>>
    /\ Last(events).op = "line"
    /\ DictHas(footnote_map, "bib12") /\ DictHas(footnote_map, "ref3")
    /\ EndsWith(Last(events).text,
                "Gamma deltab (Footnote: Other note; Side note)\n")

\* C11 as stated: whenever the line of a body paragraph is emitted, each
\* cited id that is in the footnote index, whatever its in_references flag,
\* has the line end with "(Footnote: <its index text>)"
C11_FootnoteForIndexedId ==
    [][ LET Line == events'[Len(events')].text
            Resolved(child, ids) ==
                \A i \in 1..Len(ids) :
                    DictHas(footnote_map, ids[i]) =>
                        EndsWith(Line, "(Footnote: "
                                       \o DictGet(footnote_map, ids[i], "") \o ")\n")
            Enriched(child) == ParagraphLine(child) => Resolved(child, CitedIds(child))
        IN pc = "walking"
           => Enriched(NodeAt(soup, content_wrapper(soup)).children[next_child])
      ]_vars

\* ------------------------------------------------------------------------
\* The reference list
\* ------------------------------------------------------------------------

\* the texts that are not empty, each once whatever its letter case, in order
DistinctTexts(texts) ==
    LET Kept(i) == /\ texts[i] # ""
                   /\ \A j \in 1..(i - 1) : Lower(texts[j]) # Lower(texts[i])
        kept == SelectSeq([i \in 1..Len(texts) |-> i], Kept)
    IN [i \in 1..Len(kept) |-> texts[kept[i]]]

\* the cleaned texts of tags
EntryTexts(tags) == [i \in 1..Len(tags) |-> clean_reference_entry(tags[i])]

\* tier (a) as stated: the direct list-item children of the container
ListItemEntries ==
    IF references_section(soup) = NoPath THEN <<>>
    ELSE DistinctTexts(EntryTexts(
             find_children(NodeAt(soup, references_section(soup)), {"li"})))

\* tier (a) of the code: the direct li children of the container, without
\* them the div tags with role listitem anywhere in it, without those its
\* direct div and p children
ContainerEntries ==
    LET Roled(section) == SelectSeq(find_all(section, {"div"}),
                                    LAMBDA n : n.attrs.role = "listitem")
        Candidates(section) ==
            IF find_children(section, {"li"}) # <<>>
            THEN find_children(section, {"li"})
            ELSE IF Roled(section) # <<>> THEN Roled(section)
            ELSE find_children(section, {"div", "p"})
    IN IF references_section(soup) = NoPath THEN <<>>
       ELSE DistinctTexts(EntryTexts(Candidates(NodeAt(soup, references_section(soup)))))

\* tier (b): the texts of the index entries with in_references = true
InReferencesTexts ==
    { footnote_map[i].v : i \in { j \in 1..Len(footnote_map) :
          DictGet(footnote_in_refs, footnote_map[j].k, FALSE) } }

\* tier (c): the texts of the whole index in encounter order
IndexTexts == DistinctTexts([i \in 1..Len(footnote_map) |-> footnote_map[i].v])

\* the entries are the texts of the set, each once whatever its letter case
Exactly(entries, texts) ==
    /\ \A i \in 1..Len(entries) : entries[i] \in texts
    /\ \A t \in texts : \E i \in 1..Len(entries) : Lower(entries[i]) = Lower(t)
    /\ \A i, j \in 1..Len(entries) : i # j => Lower(entries[i]) # Lower(entries[j])

\* the reference list is the first tier that yields an entry
Tiered(entries, first) ==
    IF first # <<>> THEN entries = first
    ELSE IF InReferencesTexts # {} THEN Exactly(entries, InReferencesTexts)
    ELSE entries = IndexTexts

\* the "references" entry of the mapping is the numbered list of the entries
ReferencesWritten(entries) ==
    DictHas(json_data, "references") =>
        DictGet(json_data, "references", "") =
            Join([i \in 1..Len(entries) |-> Digits(i) \o ". " \o entries[i]], "\n")

\* C12: the reference list is built by strict preference: (a) the entries of
\* the candidates of the references container (its direct li children,
\* without them its div tags with role listitem, without those its direct div
\* and p children), each text once whatever its letter case; only if (a)
\* yields nothing, (b) the index entries with in_references = true; only if
\* (b) yields nothing either, (c) the whole index in encounter order; the
\* list never mixes two tiers, and the "references" entry numbers it
C12_ReferenceTiers ==
    pc = "assembled" =>
        /\ Tiered(get_reference_entries(soup, Ctx), ContainerEntries)
        /\ ReferencesWritten(get_reference_entries(soup, Ctx))

\* the container holds the same reference in two list items, in two letter
\* cases, and the body holds a note of its own: the list is the one entry of
\* the container, without the note
C12_Witness ==
    /\ pc = "assembled"
    /\ ListItemEntries = <<"Lee A. Cell">>
    /\ DictHas(footnote_map, "ref3")
    /\ ~DictGet(footnote_in_refs, "ref3", TRUE)
    /\ DictGet(json_data, "references", "") = "1. Lee A. Cell"

\* C12 as stated: tier (a) is the direct list-item children of the container
C12_ListItemsFirst ==
    pc = "assembled" => Tiered(get_reference_entries(soup, Ctx), ListItemEntries)

\* ------------------------------------------------------------------------
\* Figure captions
\* ------------------------------------------------------------------------

\* the caption entries the figure stage collects from the figures of the
\* page, joined as it joins them; "" when no figure yields caption text
CollectedCaptions ==
    DictGet(collect_figures(prune(page), FreshCtx).ctx.json_data, "figures", "")

\* C13 as stated: whenever a figure of the document yields caption text, the
\* returned mapping holds exactly the collected caption entries under
\* "figures", whichever pass ran
C13_FiguresEntry ==
    ReturnedNormally /\ CollectedCaptions # "" =>
        /\ result.kind = "dict"
        /\ DictGet(result.value, "figures", "") = CollectedCaptions

\* ------------------------------------------------------------------------
\* The footnote index
\* ------------------------------------------------------------------------

\* what candidate i of the indexer stores when it is the only one: the ids
\* it yields with its text and flag
MatchAlone(i) ==
    index_candidate(soup, footnote_candidates(soup)[i],
                    [footnote_map |-> <<>>, footnote_in_refs |-> <<>>,
                     footnote_elements |-> {}, seen_ids |-> {}])

\* C14: the ids of the footnote index are unique, and each id holds the text
\* and the in_references flag of its first match in the order of the
\* selectors and of the document: no later match of the same normalized id
\* changes them
C14_FirstMatchWins ==
    pc = "indexed" =>
        LET alone == [i \in 1..Len(footnote_candidates(soup)) |-> MatchAlone(i)]
            \* candidate i is the first match of the id
            FirstMatch(i, id) ==
                /\ DictHas(alone[i].footnote_map, id)
                /\ \A j \in 1..(i - 1) : ~DictHas(alone[j].footnote_map, id)
        IN
        /\ \A i, j \in 1..Len(footnote_map) :
               i # j => footnote_map[i].k # footnote_map[j].k
        /\ DictKeys(footnote_in_refs) = DictKeys(footnote_map)
        /\ \A i \in DOMAIN alone :
               \A e \in 1..Len(alone[i].footnote_map) :
                   DictHas(footnote_map, alone[i].footnote_map[e].k)
        /\ \A e \in 1..Len(footnote_map) :
               \E i \in DOMAIN alone :
                   /\ FirstMatch(i, footnote_map[e].k)
                   /\ footnote_map[e].v =
                          DictGet(alone[i].footnote_map, footnote_map[e].k, "")
                   /\ DictGet(footnote_in_refs, footnote_map[e].k, FALSE) =
                          DictGet(alone[i].footnote_in_refs, footnote_map[e].k, FALSE)

\* bib12 is matched by an anchor inside the references section and, through a
\* later selector, by a block of the body with another text: the index holds
\* the entry of the anchor, flagged in_references
C14_Witness ==
    /\ pc = "indexed"
    /\ DictGet(footnote_map, "bib12", "") = "Lee A. Cell"
    /\ DictGet(footnote_in_refs, "bib12", FALSE)
    /\ \E i \in 1..Len(footnote_candidates(soup)) :
           DictGet(MatchAlone(i).footnote_map, "bib12", "") = "Side note"

\* ---------------------------------------------------------------------------
\* The crawl loop of crawl_text_async: for each journal, the /newarticles page,
\* then, when archives are crawled, every issue page of the journal.
\* ---------------------------------------------------------------------------

\* the most the limit per journal is taken to be
MaxLimit == 2

\* the most articles a page lists
MaxArticles == 2

\* the most issues the archive of a journal lists
MaxIssues == 1

\* the most journals of journal_slugs
MaxJournals == 2

\* what the loops read of one article of a listing: whether its year lies in
\* [year_from, year_to], whether it links to its full text, whether it carries
\* the open-access label, whether its file is on disk already, whether the
\* extraction returns a non-empty mapping, whether the save succeeds, and
\* whether its processing raises an exception: none, one before the article
\* is recorded, or one in a progress callback once it is recorded
Articles ==
    [ in_years : BOOLEAN, fulltext_link : BOOLEAN, oa_label : BOOLEAN,
      exists : BOOLEAN, json_content : BOOLEAN, success : BOOLEAN,
      raises : {"no", "before", "callback"} ]

\* crawl_text_async, lines 1119, 1302, 1587: "if limit and
\* journal_download_count >= limit"
limit_reached_late(max, count) == max # 0 /\ count > max

limit_reached(max, count) == max # 0 /\ count >= max

\* lines 1306-1373: an article of /newarticles is saved when its year is in
\* range, it links to its full text, it carries the open-access label, its
\* file is not on disk yet, the extraction returns content and the save succeeds
NewArticleSaves(art) ==
    /\ art.in_years /\ art.fulltext_link /\ art.oa_label
    /\ ~art.exists /\ art.json_content /\ art.success
    /\ art.raises # "before"

\* lines 1344-1405: what becomes of an article of /newarticles
NewArticleOutcome(art) ==
    IF NewArticleSaves(art)
    THEN IF art.raises = "callback" THEN "raised_after" ELSE "saved"
    ELSE IF ~(art.in_years /\ art.fulltext_link /\ art.oa_label /\ ~art.exists)
    THEN "skipped"
    ELSE IF art.raises = "before" THEN "raised"
    ELSE IF ~art.json_content THEN "none"
    ELSE "save_failed"

\* crawl_issue_page, lines 1123-1179: the same for an article of an issue,
\* without the year, and with the label waived in an open-archive issue
IssueArticleSaves(art) ==
    /\ is_open_archive \/ art.oa_label
    /\ art.fulltext_link
    /\ ~art.exists /\ art.json_content /\ art.success
    /\ art.raises # "before"

\* crawl_issue_page, lines 1147-1211: what becomes of an article of an issue
IssueArticleOutcome(art) ==
    IF IssueArticleSaves(art)
    THEN IF art.raises = "callback" THEN "raised_after" ELSE "saved"
    ELSE IF ~((is_open_archive \/ art.oa_label) /\ art.fulltext_link /\ ~art.exists)
    THEN "skipped"
    ELSE IF art.raises = "before" THEN "raised"
    ELSE IF ~art.json_content THEN "none"
    ELSE "save_failed"

\* the article is recorded although a callback raised, or without any raise
Recorded == {"saved", "raised_after"}

\* lines 1191-1195, 1385-1389: the file is recorded and both counters move
Saved(where) ==
    /\ saved_files' = Append(saved_files,
                             [journal |-> journals_left, page |-> where])
    /\ open_access_articles' = Append(open_access_articles,
                                      [journal |-> journals_left, page |-> where])
    /\ article_metadata' = Append(article_metadata,
                                  [journal |-> journals_left, page |-> where])
    /\ found_count' = found_count + 1
    /\ journal_download_count' = journal_download_count + 1

\* an exception before the record that leaves the file recorded
NotSavedButFiled ==
    /\ saved_files' = Append(saved_files, [journal |-> journals_left, page |-> "lost"])
    /\ UNCHANGED <<journal_download_count, open_access_articles,
                   article_metadata, found_count>>

\* nothing is recorded
NotSaved ==
    UNCHANGED <<journal_download_count, saved_files, open_access_articles,
                article_metadata, found_count>>

\* lines 1595-1604: the journal is closed and the loop moves to the next slug
NextJournal ==
    /\ journals_left' = journals_left - 1
    /\ stage' = IF journals_left > 1 THEN "journal" ELSE "done"

\* crawl_text_async is entered: a limit (0 for none), crawl_archives and a
\* non-empty journal_slugs are given; the engine is idle between its calls
CrawlInit ==
    /\ Engine({EmptyTree}, 0)
    /\ NoWalk
    /\ stage = "journal"
    /\ limit \in 0..MaxLimit
    /\ crawl_archives \in BOOLEAN
    /\ journals_left \in 1..MaxJournals
    /\ articles_left = 0
    /\ issues_left = 0
    /\ is_open_archive = FALSE
    /\ journal_download_count = 0
    /\ saved_files = <<>>
    /\ open_access_articles = <<>>
    /\ article_metadata = <<>>
    /\ found_count = 0
    /\ outcome = ""

\* lines 1224-1299: the /newarticles page of the next journal is loaded; a page
\* without articles ends the journal, else the counter of the journal is reset
OpenJournal ==
    /\ stage = "journal"
    /\ outcome' = ""
    /\ UNCHANGED <<open_access_articles, article_metadata, found_count>>
    /\ \E listed \in 0..MaxArticles :
          IF listed = 0
          THEN /\ NextJournal
               /\ UNCHANGED <<articles_left, journal_download_count>>
          ELSE /\ articles_left' = listed
               /\ journal_download_count' = 0
               /\ stage' = "newarticles"
               /\ UNCHANGED journals_left
    /\ UNCHANGED <<limit, crawl_archives, issues_left, is_open_archive,
                   saved_files, engine_vars, walk_vars>>

\* lines 1301-1409: one turn of the loop over the articles of /newarticles
NewArticle ==
    /\ stage = "newarticles"
    /\ articles_left > 0
    /\ IF limit_reached(limit, journal_download_count)
       THEN /\ stage' = "listed"
            /\ outcome' = ""
            /\ NotSaved
            /\ UNCHANGED articles_left
       ELSE /\ articles_left' = articles_left - 1
            /\ stage' = IF articles_left = 1 THEN "listed" ELSE "newarticles"
            /\ \E out \in { NewArticleOutcome(art) : art \in Articles } :
                  /\ outcome' = out
                  /\ IF out \in Recorded THEN Saved("newarticles") ELSE NotSaved
    /\ UNCHANGED <<limit, crawl_archives, journals_left, issues_left,
                   is_open_archive, engine_vars, walk_vars>>

\* lines 1414-1584: the archive is crawled when crawl_archives is set or the
\* /newarticles page saved nothing; its issue links are collected
Archives ==
    /\ stage = "listed"
    /\ outcome' = ""
    /\ UNCHANGED <<open_access_articles, article_metadata, found_count>>
    /\ IF crawl_archives \/ journal_download_count = 0
       THEN /\ issues_left' \in 0..MaxIssues
            /\ stage' = "issues"
            /\ UNCHANGED journals_left
       ELSE /\ NextJournal
            /\ UNCHANGED issues_left
    /\ UNCHANGED <<limit, crawl_archives, articles_left, is_open_archive,
                   journal_download_count, saved_files, engine_vars, walk_vars>>

\* lines 1586-1591, 1086-1116: one turn of the loop over issue_links: it breaks
\* at the limit and ends when the links are used up, else crawl_issue_page
\* loads the issue
Issue ==
    /\ stage = "issues"
    /\ outcome' = ""
    /\ UNCHANGED <<open_access_articles, article_metadata, found_count>>
    /\ IF issues_left = 0 \/ limit_reached(limit, journal_download_count)
       THEN /\ NextJournal
            /\ UNCHANGED <<articles_left, issues_left, is_open_archive>>
       ELSE /\ articles_left' \in 0..MaxArticles
            /\ is_open_archive' \in BOOLEAN
            /\ issues_left' = issues_left - 1
            /\ stage' = "issue"
            /\ UNCHANGED journals_left
    /\ UNCHANGED <<limit, crawl_archives, journal_download_count, saved_files,
                   engine_vars, walk_vars>>

\* crawl_issue_page, lines 1118-1213: one turn of the loop over the articles
\* of the issue; at the limit it returns should_stop, which breaks the loop
\* over the issues (lines 1592-1593)
IssueArticle ==
    /\ stage = "issue"
    /\ articles_left > 0
    /\ IF limit_reached(limit, journal_download_count)
       THEN /\ NextJournal
            /\ outcome' = ""
            /\ NotSaved
            /\ UNCHANGED articles_left
       ELSE /\ articles_left' = articles_left - 1
            /\ UNCHANGED <<stage, journals_left>>
            /\ \E out \in { IssueArticleOutcome(art) : art \in Articles } :
                  /\ outcome' = out
                  /\ IF out \in Recorded THEN Saved("issue") ELSE NotSaved
    /\ UNCHANGED <<limit, crawl_archives, issues_left, is_open_archive,
                   engine_vars, walk_vars>>

\* crawl_issue_page, line 1215: the articles are used up and the count is
\* returned without should_stop
IssueReturn ==
    /\ stage = "issue"
    /\ outcome' = ""
    /\ UNCHANGED <<open_access_articles, article_metadata, found_count>>
    /\ articles_left = 0
    /\ stage' = "issues"
    /\ UNCHANGED <<limit, crawl_archives, journals_left, articles_left,
                   issues_left, is_open_archive, journal_download_count,
                   saved_files, engine_vars, walk_vars>>

CrawlNext ==
    \/ OpenJournal
    \/ NewArticle
    \/ Archives
    \/ Issue
    \/ IssueArticle
    \/ IssueReturn

SpecCrawl == CrawlInit /\ [][CrawlNext]_vars

\* the files saved for a journal, and those of them found on a page
SavedFor(journal) ==
    { i \in 1..Len(saved_files) : saved_files[i].journal = journal }

SavedOn(journal, where) ==
    { i \in SavedFor(journal) : saved_files[i].page = where }

\* C15: with a limit set, the files saved for one journal, those of its
\* /newarticles page and those of all its issue pages together, are never more
\* than the limit, and journal_download_count counts the files saved for the
\* journal being crawled.
C15_LimitPerJournal ==
    /\ limit # 0 =>
           \A journal \in 1..MaxJournals :
               Cardinality(SavedFor(journal)) <= limit
    /\ stage \in {"newarticles", "listed", "issues", "issue"} =>
           journal_download_count = Cardinality(SavedFor(journals_left))

\* the limit is met by files of both the /newarticles page and an issue page,
\* and the loop over the articles of the issue stops there with articles left
C15_Witness ==
    /\ stage = "issue"
    /\ limit = 2
    /\ articles_left > 0
    /\ Cardinality(SavedOn(journals_left, "newarticles")) = 1
    /\ Cardinality(SavedOn(journals_left, "issue")) = 1
    /\ limit_reached(limit, journal_download_count)

\* ---------------------------------------------------------------------------
\* C16: what forces the pending citations to be flushed
\* ---------------------------------------------------------------------------

\* the inline run up to child i - 1, from child i on, and without child i
RunBefore(i) == [soup EXCEPT !.children = SubSeq(@, 1, i - 1)]

RunFrom(i) == [soup EXCEPT !.children = SubSeq(@, i, Len(@))]

RunWithout(i) ==
    [soup EXCEPT !.children = SubSeq(@, 1, i - 1) \o SubSeq(@, i + 1, Len(@))]

\* the citations pending at child i are flushed before anything of child i is
\* written: the fragments of the run are those of the run up to child i - 1,
\* closed by its flush, followed by those of the run from child i on
FlushedBefore(i) ==
    parts = extract_text_with_refs(RunBefore(i))
                \o extract_text_with_refs(RunFrom(i))

\* an anchor with the citation role
IsCitationAnchor(c) ==
    IsTag(c) /\ c.name = "a" /\ c.attrs.role = "doc-biblioref"

\* a tag of one of the names whose text is nothing but a comma, a semicolon,
\* "and", an ampersand, an en-dash or a hyphen
SeparatorOnly(c, names) ==
    /\ IsTag(c)
    /\ c.name \in names
    /\ get_text_strip(c, "") \in {",", ";", "and", "&", EnDash, "-"}

InlineWrappers == {"span", "strong", "em", "i", "b"}

\* content that writes nothing and leaves the pending citations alone, beside
\* the citation anchors and the separator-only sup and sub: white space, an
\* inline wrapper that is separator-only or empty, a dropdown block
Passed(c) ==
    \/ ~IsTag(c) /\ Strip(c.text) = ""
    \/ SeparatorOnly(c, InlineWrappers)
    \/ IsTag(c) /\ c.name \in InlineWrappers /\ get_text_strip(c, "") = ""
    \/ IsTag(c) /\ c.name = "div" /\ InSeq("dropBlock__holder", c.attrs.class)

\* C16: in an inline run, any content other than a citation anchor, a
\* separator-only sup or sub, white space, a separator-only or empty inline
\* wrapper and a dropdown block forces the pending citations to be flushed
\* immediately before it; a separator-only inline wrapper is swallowed
\* without a flush: the run reads as it does without the wrapper.
C16_FlushBeforeContent ==
    pc = "inline_done" =>
        \A i \in 1..Len(soup.children) :
            LET c == soup.children[i] IN
            /\ ( /\ ~IsCitationAnchor(c)
                 /\ ~SeparatorOnly(c, {"sup", "sub"})
                 /\ ~Passed(c) ) => FlushedBefore(i)
            /\ SeparatorOnly(c, InlineWrappers) =>
                   parts = extract_text_with_refs(RunWithout(i))

\* two citations around a separator-only span, before a word: one annotation
\* for both, written before the word
C16_Witness ==
    /\ pc = "inline_done"
    /\ soup.children = << Cite("1"), El("span", NoAttrs, <<Txt(" and ")>>),
                          Cite("2"), Txt("Alpha") >>
    /\ parts = << " (Ref: 1, 2)", "Alpha" >>

\* C16 as stated: any content other than a citation anchor or a
\* separator-only sup or sub, a separator-only inline wrapper included, forces
\* the pending citations to be flushed immediately before it.
C16_AnyOtherContentFlushes ==
    pc = "inline_done" =>
        \A i \in 1..Len(soup.children) :
            LET c == soup.children[i] IN
            ( ~IsCitationAnchor(c) /\ ~SeparatorOnly(c, {"sup", "sub"}) )
                => FlushedBefore(i)

\* ---------------------------------------------------------------------------
\* The section accumulator under headings of every level, some of them noise
\* ---------------------------------------------------------------------------

\* headings of levels 1 to 6, two of them with a phrase of unwanted_phrases,
\* among paragraphs
OutlineVocab ==
    { Block("p", "Gamma delta"),
      Block("h1", "Cell Growth"),
      Block("h2", "Results And Discussion"),
      Block("h2", "Key Metrics"),
      Block("h3", "Details"),
      Block("h5", "Show more"),
      Block("h6", "Alpha beta") }

OutlineDocs == { BlockDoc(run) : run \in BlockRuns(OutlineVocab) }

SpecOutline == Start(ShapeDocs \cup OutlineDocs, 1) /\ [][Next]_vars

\* the walker took the next child of the content wrapper, a heading tag, and
\* handed its text to append_heading with a level among levels: the entry
\* that the step adds to the history after the one of the visit
HeadingEvent(levels) ==
    /\ pc = "walking" /\ pc' = "walking" /\ next_child' = next_child + 1
    /\ Len(events') > Len(events) + 1
    /\ events'[Len(events) + 2].op = "append_heading"
    /\ events'[Len(events) + 2].n \in levels

\* the text of that heading, cleaned
HeadingText == CollapseWhitespace(Strip(events'[Len(events) + 2].text))

\* the buffer, joined and trimmed
Trimmed == Strip(Concat(current_section_parts))

\* the buffer goes into the section map under the current section name when
\* it is not empty, the section is named after the heading, the buffer is empty
TopHeadingTransition ==
    /\ json_data' = IF Trimmed # ""
                    THEN DictSet(json_data, current_section, Trimmed)
                    ELSE json_data
    /\ current_section' = SlugFrom(HeadingText, 1, {Star})
    /\ current_section_parts' = <<>>

\* C17: every heading event of level <= 2 whose text the noise filter does
\* not flag flushes the trimmed current buffer (if non-empty) into the section
\* map under the current section name, then sets the current section name to
\* the slug of the heading text and resets the buffer to empty; a heading
\* whose text the noise filter flags leaves the section map, the current
\* section name, the buffer and the flat text as they are.
C17_TopHeading ==
    [][ HeadingEvent(1..2) =>
            IF should_skip_text(HeadingText)
            THEN UNCHANGED <<json_data, current_section, current_section_parts,
                             text_parts>>
            ELSE TopHeadingTransition
      ]_vars

\* a heading of level 2 has flushed a buffer and opened its section, and a
\* later heading of level 2 with an unwanted phrase was handed over and left
\* the section as it was
C17_Witness ==
    /\ pc = "walking"
    /\ \E i \in 1..Len(events) :
          /\ events[i].op = "save" /\ events[i].out = "header"
          /\ events[i + 1].op = "heading" /\ events[i + 1].n = 2
          /\ events[i + 1].out = "results_and_discussion"
    /\ Last(events).op = "append_heading" /\ Last(events).text = "Key Metrics"
    /\ DictKeys(json_data) = <<"header">>
    /\ current_section = "results_and_discussion"

\* C17 as stated: every heading event of level <= 2 flushes the trimmed
\* current buffer (if non-empty) into the section map under the current
\* section name, sets the current section name to the slug of the heading
\* text and resets the buffer to empty.
C17_EveryTopHeading ==
    [][ HeadingEvent(1..2) => TopHeadingTransition ]_vars

\* the level of the heading handed over in the step
HeadingLevel == events'[Len(events) + 2].n

\* the sub-heading line of a heading: as many hash signs as its level, a
\* space, the text, a blank line
SubHeadingLine == SubSeq("######", 1, HeadingLevel) \o " " \o HeadingText \o "\n\n"

\* C18: a heading event of level 3 to 6 leaves the current section name and
\* the section map unchanged; when the noise filter does not flag its text it
\* appends one sub-heading line to the current buffer, as many hash signs as
\* the level, then the text ("### text" at level 3), and when the noise filter
\* flags the text the buffer is left as it is.
C18_SubHeading ==
    [][ HeadingEvent(3..6) =>
            /\ UNCHANGED <<json_data, current_section>>
            /\ current_section_parts' =
                   IF should_skip_text(HeadingText)
                   THEN current_section_parts
                   ELSE Append(current_section_parts, SubHeadingLine)
      ]_vars

\* a heading of level 6 put its line into the buffer after a heading of level
\* 5 with an unwanted phrase had put none
C18_Witness ==
    /\ pc = "walking"
    /\ current_section_parts = << "###### Alpha beta\n\n" >>
    /\ \E i \in 1..Len(events) :
          /\ events[i].op = "append_heading"
          /\ events[i].text = "Show more" /\ events[i].n = 5

\* C18 as stated: a heading event of level 3 to 6 leaves the current section
\* name and the section map unchanged and appends one sub-heading line, the
\* hash signs then the text, to the current buffer.
C18_EverySubHeading ==
    [][ HeadingEvent(3..6) =>
            /\ UNCHANGED <<json_data, current_section>>
            /\ current_section_parts' =
                   Append(current_section_parts, SubHeadingLine)
      ]_vars

\* ---------------------------------------------------------------------------
\* C19: the items of a list that have no text of their own
\* ---------------------------------------------------------------------------

\* lists with an empty item, an item of white space, an item that holds
\* nothing but a nested list, and an ordered list whose tenth item is empty,
\* among text and paragraphs
ListVocab ==
    { Txt("Alpha beta"),
      Block("p", "Gamma delta"),
      El("ul", NoAttrs, <<Block("li", "Alpha beta"), El("li", NoAttrs, <<>>)>>),
      El("ol", NoAttrs, <<El("li", NoAttrs, <<Txt(" ")>>),
                          Block("li", "Gamma delta")>>),
      El("ul", NoAttrs,
         <<El("li", NoAttrs,
              <<El("ul", NoAttrs, <<Block("li", "Gamma delta")>>)>>)>>),
      El("ol", NoAttrs,
         [k \in 1..10 |-> IF k = 10 THEN El("li", NoAttrs, <<>>)
                          ELSE Block("li", "Alpha beta")]) }

ListDocs == { BlockDoc(run) : run \in BlockRuns(ListVocab) }

SpecLists == Start(ShapeDocs \cup ListDocs, 1) /\ [][Next]_vars

\* the walker took the next child of the content wrapper, a list
ListVisit(child) ==
    /\ pc = "walking" /\ pc' = "walking" /\ next_child' = next_child + 1
    /\ IsTag(child) /\ child.name \in {"ul", "ol"} /\ Walked(child)

\* the text of a list item without the text of its nested lists
OwnText(item) ==
    clean_text(RemoveNestedText(
        CollapseSpaces(Strip(Concat(extract_text_with_refs(item)))),
        find_children(item, {"ul", "ol"}), 1))

\* the bullet of the k-th item of a list, alone
BulletAlone(list_tag, k) == IF list_tag.name = "ol" THEN Digits(k) \o "." ELSE "-"

\* the lines the step put into the current section
NewSectionLines ==
    { current_section_parts'[j] :
          j \in (Len(current_section_parts) + 1)..Len(current_section_parts') }

\* C19 as stated: a list item whose own text is empty still puts a line that
\* is the bullet alone, "-" in an unordered list and "k." for the k-th item
\* of an ordered list, into the current section.
C19_BulletAlone ==
    [][ LET Emits(list_tag) ==
                \A k \in 1..Len(find_children(list_tag, {"li"})) :
                    OwnText(find_children(list_tag, {"li"})[k]) = ""
                        => BulletAlone(list_tag, k) \o "\n" \in NewSectionLines
        IN pc = "walking" /\ next_child <= Len(NodeAt(soup, content_wrapper(soup)).children)
           => LET child == NodeAt(soup, content_wrapper(soup)).children[next_child]
              IN ListVisit(child) => Emits(child)
      ]_vars

\* ---------------------------------------------------------------------------
\* C20: what becomes of the text the fallback pass finds
\* ---------------------------------------------------------------------------

\* the fallback pass of the call ran
FallbackTaken == \E i \in 1..Len(events) : events[i].op = "fallback" /\ events[i].flag

\* the text of an entry the fallback wrote, without the marks around it: the
\* white space, the hash signs of a heading, the label of the authors
FoundText(part) ==
    LET s == Strip(part)
        plain == IF StartsWith(s, "AUTHORS: ") THEN SubSeq(s, 10, Len(s)) ELSE s
        marks == { k \in 1..Len(plain) : Ch(plain, k) \notin {"#", " "} }
    IN IF marks = {} THEN ""
       ELSE SubSeq(plain, CHOOSE k \in marks : \A j \in marks : k <= j, Len(plain))

\* the texts the fallback found in the document: its entries but the banners
\* of the abstract, the introduction and the main content
FallbackFound ==
    { FoundText(fallback_parts(soup)[i]) : i \in 1..Len(fallback_parts(soup)) }
        \ {"ABSTRACT", "INTRODUCTION", "MAIN CONTENT"}

\* C20 as stated: when the fallback pass ran and found a title, authors, an
\* abstract, an introduction or main-body text through the legacy selectors,
\* the mapping the call returns holds that text.
C20_FallbackTextReturned ==
    ReturnedNormally /\ FallbackTaken =>
        \A found \in FallbackFound :
            /\ result.kind = "dict"
            /\ \E i \in 1..Len(result.value) : Contains(found, result.value[i].v)

\* ---------------------------------------------------------------------------
\* C21: the rendering of a table
\* ---------------------------------------------------------------------------

\* a table whose first row has an empty cell between two others and whose
\* second row has empty cells only
TableWithGaps ==
    El("table", NoAttrs,
       <<El("tr", NoAttrs, <<Block("th", "Gene"), El("th", NoAttrs, <<>>),
                             Block("th", "Fold")>>),
         El("tr", NoAttrs, <<El("td", NoAttrs, <<>>), Block("td", " ")>>),
         El("tr", NoAttrs, <<Block("td", "Abc1"), Block("td", "2.5 | 3")>>)>>)

\* a table without a cell that holds text
TableOfBlanks ==
    El("table", NoAttrs,
       <<El("tr", NoAttrs, <<El("td", NoAttrs, <<>>), Block("td", " ")>>),
         El("tr", NoAttrs, <<>>)>>)

\* tables among text and paragraphs
TableVocab ==
    { Txt("Alpha beta"), Block("p", "Gamma delta"), Table2x2, TableWithGaps,
      TableOfBlanks, El("table", NoAttrs, <<>>) }

TableDocs == { BlockDoc(run) : run \in BlockRuns(TableVocab) }

SpecTables == Start(ShapeDocs \cup TableDocs, 1) /\ [][Next]_vars

\* the walker took the next child of the content wrapper, a table
TableVisit(child) ==
    /\ pc = "walking" /\ pc' = "walking" /\ next_child' = next_child + 1
    /\ IsTag(child) /\ child.name = "table" /\ Walked(child)

\* the cell texts of the rows of a table that have a non-empty cell
SurvivingRows(table) ==
    LET trs == find_all(table, {"tr"})
        Cells(tr) == [c \in 1..Len(find_all(tr, {"th", "td"})) |->
                         cell_text(find_all(tr, {"th", "td"})[c])]
    IN SelectSeq([r \in 1..Len(trs) |-> Cells(trs[r])],
                 LAMBDA cells : \E c \in 1..Len(cells) : cells[c] # "")

\* a blank, the marker, one line per surviving row and a blank, the line of a
\* row being its cell texts joined with " | ": all of them, or the non-empty
\* ones only
MarkedRows(table, non_empty_only) ==
    LET rows == SurvivingRows(table)
        Joined(cells) ==
            IF non_empty_only
            THEN Join(SelectSeq(cells, LAMBDA text : text # ""), " | ")
            ELSE Join(cells, " | ")
    IN IF rows = <<>> THEN <<>>
       ELSE <<"\n", "[Table]\n">>
            \o [r \in 1..Len(rows) |-> Joined(rows[r]) \o "\n"]
            \o <<"\n">>

\* the step appended out to the flattened output and to the section buffer
TableAppended(out) ==
    /\ text_parts' = text_parts \o out
    /\ current_section_parts' = current_section_parts \o out

\* C21: each table is rendered as a "[Table]" marker line followed by one line
\* per surviving row and bounded by blank-line separators, where a row
\* survives iff at least one of its cells is non-empty and the line of a
\* surviving row is the texts of all its cells, the empty ones included,
\* joined with " | "; a table with no surviving row emits nothing.
C21_TableRendering ==
    [][ pc = "walking" /\ next_child <= Len(NodeAt(soup, content_wrapper(soup)).children)
        => LET child == NodeAt(soup, content_wrapper(soup)).children[next_child]
           IN TableVisit(child) => TableAppended(MarkedRows(child, FALSE))
      ]_vars

\* the table with gaps was rendered first: its row of empty cells is dropped
\* and the empty cell of its first row stands between two separators
C21_Witness ==
    /\ pc = "walking"
    /\ next_child = 2
    /\ NodeAt(soup, content_wrapper(soup)).children[1] = TableWithGaps
    /\ current_section_parts =
           <<"\n", "[Table]\n", "Gene |  | Fold\n", "Abc1 | 2.5 3\n", "\n">>

\* C21 as stated: the line of a surviving row is its non-empty cell texts
\* joined with " | ".
C21_NonEmptyCellsJoined ==
    [][ pc = "walking" /\ next_child <= Len(NodeAt(soup, content_wrapper(soup)).children)
        => LET child == NodeAt(soup, content_wrapper(soup)).children[next_child]
           IN TableVisit(child) => TableAppended(MarkedRows(child, TRUE))
      ]_vars

\* ---------------------------------------------------------------------------
\* C22: the elements the walker leaves out as footnote elements
\* ---------------------------------------------------------------------------

\* the child of the content wrapper that the walker takes next
NextChild == NodeAt(soup, content_wrapper(soup)).children[next_child]

\* the walker is about to leave its next child out as a footnote element
ExcludedAsFootnote ==
    /\ pc = "walking"
    /\ next_child <= Len(NodeAt(soup, content_wrapper(soup)).children)
    /\ IsTag(NextChild)
    /\ NextChild \in footnote_elements

\* the node lies in the subtree of the container of candidate i, and the
\* index holds an id of that candidate with the text of the container and
\* in_references = false
InStoredContainer(node, i) ==
    /\ node \in MatchAlone(i).footnote_elements
    /\ \E e \in 1..Len(MatchAlone(i).footnote_map) :
          LET id == MatchAlone(i).footnote_map[e].k IN
          /\ DictHas(footnote_map, id)
          /\ DictGet(footnote_map, id, "") = MatchAlone(i).footnote_map[e].v
          /\ ~DictGet(footnote_in_refs, id, TRUE)

\* C22 as stated: an element is left out of the body walk as a footnote
\* element only if it lies in the subtree of the container of an entry that
\* the footnote index holds with in_references = false.
C22_ExcludedOnlyIfStored ==
    ExcludedAsFootnote =>
        \E i \in 1..Len(footnote_candidates(soup)) :
            InStoredContainer(NextChild, i)

\* ---------------------------------------------------------------------------
\* C23: markers whose id the footnote index does not hold
\* ---------------------------------------------------------------------------

\* a citation anchor that points at an id and shows a number
CiteId(id, n) ==
    El("a", [NoAttrs EXCEPT !.role = "doc-biblioref", !.href = "#" \o id],
       <<El("sup", NoAttrs, <<Txt(n)>>)>>)

\* paragraphs with a citation of bib9, which no document holds, with a
\* citation of bib1 and with a footnote marker of fn1 and fn2, of which no
\* document holds fn2; the note fn1 and a reference list with bib1
MarkerVocab ==
    { El("p", NoAttrs, <<Txt("Alpha beta"), CiteId("bib9", "9")>>),
      El("p", NoAttrs, <<Txt("Alpha beta"), CiteId("bib1", "1"), CiteId("bib9", "9"),
                         Txt(" gamma")>>),
      El("p", NoAttrs,
         <<Txt("Gamma delta"),
           El("sup", [NoAttrs EXCEPT !.data_rid = "fn2 fn1"], <<Txt("b")>>)>>),
      El("p", NoAttrs,
         <<Txt("Gamma delta"),
           El("sup", NoAttrs,
              <<El("a", [NoAttrs EXCEPT !.href = "#fn2"], <<Txt("c")>>)>>)>>),
      El("li", [NoAttrs EXCEPT !.class = <<"reference">>, !.id = "fn1"],
         <<Txt("Side note")>>),
      WithId("section", "references",
         <<El("li", NoAttrs, <<WithId("a", "bib1", <<>>), Txt("1. Lee A. Cell")>>)>>) }

MarkerDocs == { BlockDoc(run) : run \in BlockRuns(MarkerVocab) }

SpecMarkers == Start(ShapeDocs \cup MarkerDocs, 1) /\ [][Next]_vars

\* the walker took the next child of the content wrapper, a paragraph that it
\* does not leave out
ParagraphVisit(child) ==
    /\ pc = "walking" /\ pc' = "walking" /\ next_child' = next_child + 1
    /\ IsTag(child) /\ child.name = "p" /\ Walked(child)

\* the citation anchors among the children of a paragraph, and those of them
\* whose id the index holds
Citations(node) == SelectSeq(node.children, IsCitation)

Resolved(anchor) ==
    DictHas(footnote_map, normalize_identifier(AfterFirst(anchor.attrs.href, "#")))

\* the annotation of the numbers of a run of citation anchors
RefAnnotation(anchors) ==
    " (Ref: " \o Join([i \in 1..Len(anchors) |-> CitationNumber(anchors[i])], ", ")
        \o ")"

\* no "(Footnote: ...)" when no cited id is held outside the references
\* section, else the texts of the held ones and nothing of the others
FootnoteAnnotation(node, line) ==
    IF NoteIds(node) = <<>> THEN ~Contains("(Footnote:", line)
    ELSE EndsWith(line,
             " (Footnote: "
             \o Join([i \in 1..Len(NoteIds(node)) |->
                         DictGet(footnote_map, NoteIds(node)[i], "")], "; ")
             \o ")\n")

\* C23: a footnote marker whose id has no matching entry in the footnote index
\* contributes nothing to the "(Footnote: ...)" annotation; a citation anchor
\* is not looked up in the index: its number stands in the "(Ref: ...)"
\* annotation whether or not the index holds its id; neither raises an error
\* or stops the extraction: the line of the paragraph is emitted and the walk
\* goes on.
C23_UnresolvedMarkers ==
    [][ pc = "walking" /\ next_child <= Len(NodeAt(soup, content_wrapper(soup)).children)
        => ( ParagraphVisit(NextChild) =>
               /\ events'[Len(events')].op = "line"
               /\ Citations(NextChild) # <<>> =>
                      Contains(RefAnnotation(Citations(NextChild)),
                               events'[Len(events')].text)
               /\ FootnoteAnnotation(NextChild, events'[Len(events')].text) )
      ]_vars

\* with the note fn1 in the index, the paragraph that cites fn2 and fn1 was
\* annotated with the text of fn1 only, and the paragraph that cites bib9,
\* which the index does not hold, with the number 9
C23_Witness ==
    /\ pc = "walking"
    /\ DictKeys(footnote_map) = <<"fn1">>
    /\ \E i, j \in 1..Len(events) :
          /\ events[i].op = "line"
          /\ events[i].text = "Gamma deltab (Footnote: Side note)\n"
          /\ events[j].op = "line"
          /\ events[j].text = "Alpha beta (Ref: 9)\n"

\* C23 as stated: a citation or footnote marker whose id has no matching
\* entry in the footnote index contributes nothing to the "(Ref: ...)" or
\* "(Footnote: ...)" annotation of its paragraph.
C23_UnresolvedDropped ==
    [][ pc = "walking" /\ next_child <= Len(NodeAt(soup, content_wrapper(soup)).children)
        => ( ParagraphVisit(NextChild) =>
               /\ events'[Len(events')].op = "line"
               /\ LET resolved == SelectSeq(Citations(NextChild), Resolved) IN
                  IF resolved = <<>>
                  THEN ~Contains("(Ref:", events'[Len(events')].text)
                  ELSE Contains(RefAnnotation(resolved), events'[Len(events')].text)
               /\ FootnoteAnnotation(NextChild, events'[Len(events')].text) )
      ]_vars

\* ---------------------------------------------------------------------------
\* C24: paragraphs that hold a table
\* ---------------------------------------------------------------------------

\* a paragraph, a blockquote and a role=paragraph node with a table as a
\* child or below a plain div, a paragraph with a table below a span, and a
\* paragraph without table
NestedVocab ==
    { Txt("Alpha beta"),
      Block("p", "Gamma delta"),
      El("p", NoAttrs, <<Txt("Alpha beta"), Table2x2>>),
      El("blockquote", NoAttrs, <<Table2x2, Txt("Gamma delta")>>),
      El("div", [NoAttrs EXCEPT !.role = "paragraph"],
         <<El("div", NoAttrs, <<Table2x2>>)>>),
      El("p", NoAttrs, <<Txt("Alpha beta"), El("span", NoAttrs, <<Table2x2>>)>>) }

NestedDocs == { BlockDoc(run) : run \in BlockRuns(NestedVocab) }

SpecNested == Start(ShapeDocs \cup NestedDocs, 1) /\ [][Next]_vars

\* the walker took the next child of the content wrapper: a paragraph, a
\* blockquote or a role=paragraph node that it handles as such, with a table
\* in its subtree
NestedVisit(child) ==
    /\ pc = "walking" /\ pc' = "walking" /\ next_child' = next_child + 1
    /\ IsTag(child) /\ Walked(child)
    /\ child.name \in {"p", "blockquote"} \/ Lower(child.attrs.role) = "paragraph"
    /\ ~is_figure_like(child)
    /\ find_all(child, {"table"}) # <<>>

\* what the step added to the history, after the visit of the node itself
NewEvents == SubSeq(events', Len(events) + 2, Len(events'))

RECURSIVE ReachedTables(_)
\* the tables the recursion into the children comes to: those that are a
\* child or stand below plain containers, not those below an inline tag
ReachedTables(node) ==
    LET RECURSIVE From(_)
        From(i) ==
            IF i > Len(node.children) THEN <<>>
            ELSE LET c == node.children[i] IN
                 ( IF ~IsTag(c) THEN <<>>
                   ELSE IF c.name = "table" THEN <<c>>
                   ELSE IF c.name \in {"sup", "sub", "span", "a", "strong", "em",
                                       "i", "b"}
                   THEN <<>>
                   ELSE ReachedTables(c) ) \o From(i + 1)
    IN From(1)

\* the renderings of the tables, as the table renderer writes them
Renderings(tables) ==
    SelectSeq([t \in 1..Len(tables) |-> Concat(MarkedRows(tables[t], FALSE))],
              LAMBDA text : text # "")

\* the step flattened no cell of a table of the node into a line
NotFlattened(node) ==
    \A e \in 1..Len(NewEvents) :
        NewEvents[e].op = "line" =>
            \A t \in 1..Len(find_all(node, {"table"})) :
                LET rows == SurvivingRows(find_all(node, {"table"})[t]) IN
                \A r \in 1..Len(rows) : \A c \in 1..Len(rows[r]) :
                    rows[r][c] # "" => ~Contains(rows[r][c], NewEvents[e].text)

\* the texts the table renderer wrote in the step
Rendered ==
    LET tables == SelectSeq(NewEvents, LAMBDA e : e.op = "table")
    IN [t \in 1..Len(tables) |-> tables[t].text]

\* C24: a paragraph, blockquote or role=paragraph node whose subtree contains
\* a table is not flattened into one paragraph line: it is processed by
\* recursion into its children, so that a nested table the recursion comes
\* to, one that is a child or stands below plain containers, is rendered by
\* the table renderer; a table below an inline tag (sup, sub, span, a, strong,
\* em, i, b) is not rendered, since the walker does nothing on inline tags.
C24_NestedTable ==
    [][ pc = "walking" /\ next_child <= Len(NodeAt(soup, content_wrapper(soup)).children)
        => ( NestedVisit(NextChild) =>
               /\ NotFlattened(NextChild)
               /\ Rendered = Renderings(ReachedTables(NextChild)) )
      ]_vars

\* the blockquote was walked: its table was rendered and the text after the
\* table was written as a line of its own
C24_Witness ==
    \E i \in 1..Len(events) :
        /\ i + 4 <= Len(events)
        /\ events[i].op = "visit" /\ events[i].text = "blockquote"
        /\ events[i + 1].op = "visit" /\ events[i + 1].text = "table"
        /\ events[i + 2].op = "table"
        /\ events[i + 2].text = "\n[Table]\nGene | Fold\nAbc1 | 2.5\n\n"
        /\ events[i + 3].op = "append_line" /\ events[i + 3].text = "Gamma delta"
        /\ events[i + 4].op = "line" /\ events[i + 4].text = "Gamma delta\n"

\* C24 as stated: a paragraph, blockquote or role=paragraph node whose subtree
\* contains a table is not flattened into one line, and the nested table is
\* rendered by the table renderer.
C24_EveryNestedTable ==
    [][ pc = "walking" /\ next_child <= Len(NodeAt(soup, content_wrapper(soup)).children)
        => ( NestedVisit(NextChild) =>
               /\ NotFlattened(NextChild)
               /\ Rendered = Renderings(find_all(NextChild, {"table"})) )
      ]_vars

\* ---------------------------------------------------------------------------
\* C25: the indent of nested containers and lists
\* ---------------------------------------------------------------------------

RECURSIVE ListChain(_, _)
\* lists nested in one another from level j to level b, one item each
ListChain(j, b) ==
    El("ul", NoAttrs,
       <<El("li", NoAttrs,
            <<Txt("a" \o Digits(j))>>
            \o (IF j < b THEN <<ListChain(j + 1, b)>> ELSE <<>>))>>)

\* what stands in a container: a text, a paragraph, a list, a list with a
\* nested list, a section
DepthInners ==
    { Txt("a1"), Block("p", "a1"), ListChain(1, 1), ListChain(1, 2),
      El("section", NoAttrs, <<Txt("a1")>>) }

\* a section, a div with a structural class, a div with the structural
\* attribute and a plain div around inner
Wrap(kind, inner) ==
    CASE kind = "section" -> El("section", NoAttrs, <<inner>>)
      [] kind = "class" -> Classed("div", "article-section", <<inner>>)
      [] kind = "attribute" ->
             El("div", [NoAttrs EXCEPT !.data_core_component = TRUE], <<inner>>)
      [] OTHER -> El("div", NoAttrs, <<inner>>)

DepthVocab ==
    { Wrap(kind, inner) : kind \in {"section", "class", "attribute", "plain"},
                          inner \in DepthInners }

ListVocabNested == { ListChain(1, 1), ListChain(1, 2) }

\* the indents the followed call passed to the visits below it
VisitIndents ==
    { walk_events[i].n : i \in { j \in 2..Len(walk_events) :
                                    walk_events[j].op = "visit" } }

\* the indents of the list renderings of the followed call: those of the
\* lines of their items
ListCallIndents ==
    { walk_events[i].n : i \in { j \in 1..Len(walk_events) :
                                    /\ walk_events[j].op = "append_line"
                                    /\ StartsWith(walk_events[j].text, "- ") } }

\* line 777: the walker calls append_content on a child of the wrapper with
\* the indent 0
WalkTop ==
    /\ \E node \in DepthVocab :
          /\ walk_node' = node
          /\ walk_indent' = 0
          /\ walk_events' = append_content(node, 0, FreshCtx).events
    /\ UNCHANGED <<engine_vars, crawl_vars>>

\* line 704: append_content is called on a child with the indent the call
\* above it computed; what stands below the child is chosen anew
WalkNested ==
    /\ \E node \in DepthVocab, indent \in VisitIndents :
          /\ walk_node' = node
          /\ walk_indent' = indent
          /\ walk_events' = append_content(node, indent, FreshCtx).events
    /\ UNCHANGED <<engine_vars, crawl_vars>>

\* lines 539 and 688: append_list is called with the indent the call above it
\* computed; the list is chosen anew
RenderList ==
    /\ \E list_tag \in ListVocabNested, indent \in ListCallIndents :
          /\ walk_node' = list_tag
          /\ walk_indent' = indent
          /\ walk_events' = append_list(list_tag, indent, FreshCtx).events
    /\ UNCHANGED <<engine_vars, crawl_vars>>

DepthInit == Engine({EmptyTree}, 0) /\ NoCrawl /\ NoWalk

DepthNext == WalkTop \/ WalkNested \/ RenderList

SpecDepth == DepthInit /\ [][DepthNext]_vars

\* one step more of indent, kept at the maximum
Deeper(indent) == IF indent + 2 < 12 THEN indent + 2 ELSE 12

RECURSIVE ListIndents(_, _)
RECURSIVE Indents(_, _)
\* the indents of the lines of the items of a list, each followed by those of
\* the lists nested in it
ListIndents(list_tag, indent) ==
    LET items == find_children(list_tag, {"li"})
        RECURSIVE Nested(_, _)
        Nested(lists, j) ==
            IF j > Len(lists) THEN <<>>
            ELSE ListIndents(lists[j], Deeper(indent)) \o Nested(lists, j + 1)
        RECURSIVE Items(_)
        Items(i) ==
            IF i > Len(items) THEN <<>>
            ELSE <<indent>>
                 \o Nested(find_children(items[i], {"ul", "ol"}), 1)
                 \o Items(i + 1)
    IN Items(1)

\* the indents of the visits and of the lines of a node and below it, in walk
\* order: a text is a line, a paragraph a visit and a line, a list a visit
\* and its items, any other node a visit and its children, which stand one
\* step deeper when the node is a container
Indents(node, indent) ==
    IF ~IsTag(node) THEN <<indent>>
    ELSE IF node.name = "p" THEN <<indent, indent>>
    ELSE IF node.name = "ul" THEN <<indent>> \o ListIndents(node, indent)
    ELSE LET below == IF is_container(node) THEN Deeper(indent) ELSE indent
             RECURSIVE Below(_)
             Below(i) ==
                 IF i > Len(node.children) THEN <<>>
                 ELSE Indents(node.children[i], below) \o Below(i + 1)
         IN <<indent>> \o Below(1)

\* the indents the followed call passed to its visits and to append_line
PassedIndents ==
    LET passed == SelectSeq(walk_events,
                            LAMBDA e : e.op \in {"visit", "append_line"})
    IN [i \in 1..Len(passed) |-> passed[i].n]

\* C25: the indent passed to any visit, line emission or list rendering is
\* always between 0 and the maximum indent (12): each container or nested
\* list adds one fixed step (2) to the indent of its children, and at the cap
\* further nesting keeps the indent at the maximum instead of growing it.
C25_IndentCapped ==
    /\ walk_indent \in 0..12
    /\ \A i \in 1..Len(walk_events) : walk_events[i].n \in 0..12
    /\ walk_events # <<>> =>
           PassedIndents = IF walk_events[1].op = "visit"
                           THEN Indents(walk_node, walk_indent)
                           ELSE ListIndents(walk_node, walk_indent)

\* a section with a list and a nested list in it was visited at the maximum
\* indent: the list, its item and the item of the nested list were passed
\* the maximum again
C25_Witness ==
    /\ walk_indent = 12
    /\ walk_node = Wrap("section", ListChain(1, 2))
    /\ PassedIndents = <<12, 12, 12, 12>>
    /\ \E i \in 1..Len(walk_events) :
          /\ walk_events[i].op = "line"
          /\ walk_events[i].text = "            - a2\n"

\* ---------------------------------------------------------------------------
\* C26: the order of the reference list built from the index
\* ---------------------------------------------------------------------------

MaxRefs == 3

\* list items of a references section that the index takes by their id: two
\* numbered ones, one numbered 02, one without number and one numbered beyond
\* a million
RefItems ==
    { WithId("li", "ref10", <<Txt("Lee A")>>),
      WithId("li", "ref2", <<Txt("Chen B")>>),
      WithId("li", "ref02", <<Txt("Kim E")>>),
      WithId("li", "ref", <<Txt("Wu C")>>),
      WithId("li", "ref1000001", <<Txt("Roy D")>>) }

\* the items in a list below the references section: the section has no
\* candidates of its own, so that the list is built from the index
RefDocs ==
    { BlockDoc(<<WithId("section", "references", <<El("ul", NoAttrs, run)>>)>>) :
          run \in { r \in UNION { [1..n -> RefItems] : n \in 1..MaxRefs } :
                       \A i, j \in 1..Len(r) : i # j => r[i] # r[j] } }

SpecRefs == Start(ShapeDocs \cup RefDocs, 1) /\ [][Next]_vars

\* the ids of the index entries with in_references = true, in the order of
\* the entries of the reference list
EntryIds ==
    LET entries == get_reference_entries(soup, Ctx)
        IdOf(text) ==
            SelectSeq(DictKeys(footnote_map),
                      LAMBDA fid : /\ DictGet(footnote_in_refs, fid, FALSE)
                                   /\ DictGet(footnote_map, fid, "") = text)[1]
    IN [i \in 1..Len(entries) |-> IdOf(entries[i])]

\* the list is built from the index entries with in_references = true
BuiltFromIndex ==
    /\ pc = "assembled"
    /\ ContainerEntries = <<>>
    /\ InReferencesTexts # {}

\* a stands before b: by the number of the first run of digits, an id without
\* digits after every id with digits, the id string deciding between equals
NumericBefore(a, b) ==
    LET HasNumber(id) == LeadingNumber(id) # -1 IN
    IF HasNumber(a) /\ HasNumber(b)
    THEN \/ LeadingNumber(a) < LeadingNumber(b)
         \/ LeadingNumber(a) = LeadingNumber(b) /\ StrLess(a, b)
    ELSE IF HasNumber(a) THEN TRUE
    ELSE IF HasNumber(b) THEN FALSE
    ELSE StrLess(a, b)

\* C26 as stated: when the reference list is built from footnote-index
\* entries with in_references = true, the entries are ordered by the leading
\* numeric token of their id in ascending numeric order, every id without a
\* numeric token comes after all ids with one, and ties are broken by the id
\* string.
C26_NumericOrder ==
    BuiltFromIndex =>
        /\ Len(EntryIds) = Cardinality(InReferencesTexts)
        /\ \A i, j \in 1..Len(EntryIds) :
               i < j => NumericBefore(EntryIds[i], EntryIds[j])

\* ---------------------------------------------------------------------------
\* C27: the "references" entry of the returned mapping
\* ---------------------------------------------------------------------------

\* paragraphs of the body, one of them with the word REFERENCES in capitals,
\* a heading of the body and references sections
AssemblyVocab ==
    { Block("p", "Gamma delta"),
      Block("p", "SEE REFERENCES"),
      Block("h2", "References"),
      WithId("section", "references", <<Block("li", "1. Lee A. Cell")>>),
      WithId("section", "references",
         <<Block("li", "2. Chen B. Neuron"), Block("li", "1. Lee A. Cell")>>) }

AssemblyDocs == { BlockDoc(run) : run \in BlockRuns(AssemblyVocab) }

SpecAssembly == Start(ShapeDocs \cup AssemblyDocs, 1) /\ [][Next]_vars

\* the entries of the reference list builder, numbered from 1 in its order
NumberedEntries ==
    LET entries == get_reference_entries(soup, Ctx)
    IN Join([i \in 1..Len(entries) |-> Digits(i) \o ". " \o entries[i]], "\n")

\* C27 as stated: whenever the reference list builder yields at least one
\* entry, the returned mapping contains the key "references" whose value is
\* those entries numbered 1..n in builder order, whatever text the body
\* sections contain.
C27_ReferencesKey ==
    ReturnedNormally /\ get_reference_entries(soup, Ctx) # <<>> =>
        /\ result.kind = "dict"
        /\ DictHas(result.value, "references")
        /\ DictGet(result.value, "references", "") = NumberedEntries

\* ---------------------------------------------------------------------------
\* C28: the steps that change the document tree
\* ---------------------------------------------------------------------------

\* where the call stands once the pruning is done
AfterPruning ==
    { "pruned", "ready", "indexed", "header_done", "walking", "primary_done",
      "fallback_done", "figures_done", "flushed", "assembled" }

\* C28 as stated: the document tree is modified only by the pruning step that
\* runs before the footnote indexer and every other component; no step that
\* runs after pruning (indexing, walking, figure collection, reference
\* building) removes or changes a node of the tree.
C28_TreeReadOnly ==
    [][ (pc \in AfterPruning) => (soup' = soup) ]_vars

\* ---------------------------------------------------------------------------
\* C29: articles that fail in the crawl loops
\* ---------------------------------------------------------------------------

\* one turn of a loop over the articles of a page, past the check of the limit
ArticleTurn ==
    /\ stage \in {"newarticles", "issue"}
    /\ articles_left' = articles_left - 1

\* the turn recorded nothing
NothingRecorded ==
    /\ saved_files' = saved_files
    /\ open_access_articles' = open_access_articles
    /\ article_metadata' = article_metadata
    /\ found_count' = found_count
    /\ journal_download_count' = journal_download_count

\* the loop goes on: it stays on the page for the next article, and leaves
\* the page only when the turn took its last article
LoopGoesOn ==
    /\ journals_left' = journals_left
    /\ IF stage = "issue" \/ articles_left > 1
       THEN stage' = stage
       ELSE stage' = "listed"

\* C29: in the crawl loops of crawl_text_async, an article whose extraction
\* returns the absence value, whose save fails, or whose processing raises an
\* exception before the article is recorded leaves saved_files,
\* open_access_articles, article_metadata, found_count and the per-journal
\* count unchanged; an article whose progress callback raises once it is
\* recorded stays recorded in all five; in each case the loop goes on to the
\* next article of the page.
C29_FailedArticle ==
    [][ ArticleTurn =>
          /\ outcome' \in {"none", "save_failed", "raised"} => NothingRecorded
          /\ outcome' = "raised_after" =>
                 /\ Len(saved_files') = Len(saved_files) + 1
                 /\ Len(open_access_articles') = Len(open_access_articles) + 1
                 /\ Len(article_metadata') = Len(article_metadata) + 1
                 /\ found_count' = found_count + 1
                 /\ journal_download_count' = journal_download_count + 1
          /\ outcome' \in {"none", "save_failed", "raised", "raised_after"} =>
                 LoopGoesOn
      ]_vars

\* the first article of an issue raised an exception and left nothing
\* recorded; the second one is next
C29_Witness ==
    /\ stage = "issue"
    /\ outcome = "raised"
    /\ articles_left = 1
    /\ saved_files = <<>>
    /\ found_count = 0

\* C29 as stated: an article whose extraction returns the absence value,
\* whose save fails, or whose processing raises an exception leaves
\* saved_files, open_access_articles, article_metadata, found_count and the
\* per-journal count unchanged, and the loop goes on to the next article of
\* the page.
C29_FailureLeavesNothing ==
    [][ ArticleTurn /\ outcome' \in {"none", "save_failed", "raised", "raised_after"}
          => NothingRecorded /\ LoopGoesOn
      ]_vars

\* ---------------------------------------------------------------------------
\* C30: when the issue archives of a journal are crawled
\* ---------------------------------------------------------------------------

\* the loop over journal_slugs leaves the journal
JournalCloses == journals_left' = journals_left - 1

\* the journal is left from the crawl of its issue archives
ArchivesCrawled == stage \in {"issues", "issue"}

\* C30 as stated: for each journal processed by crawl_text_async, the issue
\* archives are crawled if and only if crawl_archives is true or the
\* /newarticles pass of that journal saved zero articles.
C30_ArchivesIff ==
    [][ JournalCloses =>
          ( ArchivesCrawled <=>
                \/ crawl_archives
                \/ Cardinality(SavedOn(journals_left, "newarticles")) = 0 )
      ]_vars

====
